---------------------------- MODULE Spec2Model ----------------------------
(***************************************************************************)
(* Model of the stvid streak pipeline: process_new.py's burst loop and the *)
(* classes of stvid/fourframe.py it drives (FourFrame, Track, Prediction,  *)
(* Observation).                                                           *)
(*                                                                         *)
(* Numbers.  The program computes in IEEE doubles; the model computes in   *)
(* exact rationals (records [n, d], d > 0, in lowest terms) and keeps      *)
(* the three float outcomes that decide a comparison apart: a finite       *)
(* number, an infinity and NaN.  Square roots and angles never appear:     *)
(* every comparison the program makes on a norm or an angle is made here   *)
(* on its square or its cosine, which is the same comparison.  Rounding    *)
(* error of the doubles is not modelled.                                   *)
(***************************************************************************)
EXTENDS Integers, Sequences, FiniteSets, TLC

(***************************************************************************)
(* Exact rational arithmetic                                               *)
(***************************************************************************)
Abs(x) == IF x < 0 THEN -x ELSE x

RECURSIVE GCD(_, _)
GCD(a, b) == IF b = 0 THEN a ELSE GCD(b, a % b)

Frac(n, d) ==
    LET g == GCD(Abs(n), Abs(d))
        s == IF d < 0 THEN -1 ELSE 1
    IN  [n |-> (s * n) \div g, d |-> (s * d) \div g]

FInt(k) == [n |-> k, d |-> 1]
FAdd(a, b) == Frac(a.n * b.d + b.n * a.d, a.d * b.d)
FSub(a, b) == Frac(a.n * b.d - b.n * a.d, a.d * b.d)
FMul(a, b) == Frac(a.n * b.n, a.d * b.d)
FDiv(a, b) == Frac(a.n * b.d, a.d * b.n)
FNeg(a) == [n |-> -a.n, d |-> a.d]
FAbs(a) == [n |-> Abs(a.n), d |-> a.d]
FSq(a) == FMul(a, a)
FLt(a, b) == a.n * b.d < b.n * a.d
FLe(a, b) == a.n * b.d <= b.n * a.d
FZero(a) == a.n = 0

RECURSIVE SumSeq(_)
SumSeq(s) == IF s = <<>> THEN 0 ELSE Head(s) + SumSeq(Tail(s))

MinSeq(s) == CHOOSE m \in {s[i] : i \in DOMAIN s} : \A i \in DOMAIN s : m <= s[i]
MaxSeq(s) == CHOOSE m \in {s[i] : i \in DOMAIN s} : \A i \in DOMAIN s : m >= s[i]

(***************************************************************************)
(* A float: a finite rational, +-infinity or NaN.                          *)
(***************************************************************************)
Num(f) == [kind |-> "num", v |-> f]
Inf == [kind |-> "inf", v |-> FInt(0)]
NaN == [kind |-> "nan", v |-> FInt(0)]

\* x / y on doubles with y >= 0: a finite quotient, or x/0 = +-inf, 0/0 = nan.
FloatDiv(x, y) ==
    IF ~FZero(y) THEN Num(FDiv(x, y))
    ELSE IF FZero(x) THEN NaN ELSE Inf

\* a comparison that holds for an unordered pair
AbsBelowOrUnordered(v, limit) == v.kind = "nan" \/ (v.kind = "num" /\ FLt(FAbs(v.v), limit))

\* np.abs(v) < limit on doubles: false for NaN and for an infinity.
AbsBelow(v, limit) == v.kind = "num" /\ FLt(FAbs(v.v), limit)

(***************************************************************************)
(* np.polyfit / np.polyval / np.polyder on integer abscissae and values.   *)
(* A fit is [status, c]: c the coefficients, highest power first.          *)
(*   "ok"      full rank: the least-squares solution (normal equations)    *)
(*   "rankdef" rank deficient, no zero column: lstsq's minimum-norm        *)
(*             solution on the norm-scaled columns (RankWarning, no raise) *)
(*   "zerocol" a column of the design matrix is all zero: polyfit divides  *)
(*             it by its zero norm, and lstsq is handed NaNs               *)
(***************************************************************************)
Pow(ts, k) == [i \in DOMAIN ts |-> IF k = 0 THEN 1
                                    ELSE IF k = 1 THEN ts[i]
                                    ELSE IF k = 2 THEN ts[i] * ts[i]
                                    ELSE IF k = 3 THEN ts[i] * ts[i] * ts[i]
                                    ELSE ts[i] * ts[i] * ts[i] * ts[i]]
S(ts, k) == SumSeq(Pow(ts, k))
T(ts, rs, k) == SumSeq([i \in DOMAIN ts |-> Pow(ts, k)[i] * rs[i]])

Det2(a, b, c, d) == a * d - b * c
Det3(m) ==
      m[1][1] * Det2(m[2][2], m[2][3], m[3][2], m[3][3])
    - m[1][2] * Det2(m[2][1], m[2][3], m[3][1], m[3][3])
    + m[1][3] * Det2(m[2][1], m[2][2], m[3][1], m[3][2])

AllZero(ts) == \A i \in DOMAIN ts : ts[i] = 0

polyfit1(ts, rs) ==
    LET d == Det2(S(ts, 2), S(ts, 1), S(ts, 1), S(ts, 0))
    IN  IF AllZero(ts) THEN [status |-> "zerocol", c |-> <<>>]
        ELSE IF d = 0
        THEN \* all abscissae equal and non-zero: the line through the origin
             \* and the mean, split by the columns' norms
             [status |-> "rankdef",
              c |-> << Frac(T(ts, rs, 1), 2 * S(ts, 2)),
                       Frac(T(ts, rs, 0), 2 * S(ts, 0)) >>]
        ELSE [status |-> "ok",
              c |-> << Frac(Det2(T(ts, rs, 1), S(ts, 1), T(ts, rs, 0), S(ts, 0)), d),
                       Frac(Det2(S(ts, 2), T(ts, rs, 1), S(ts, 1), T(ts, rs, 0)), d) >>]

\* a line fitted where a parabola is asked for
polyfit2Linear(ts, rs) ==
    [status |-> polyfit1(ts, rs).status,
     c |-> IF polyfit1(ts, rs).c = <<>> THEN <<>>
           ELSE << FInt(0) >> \o polyfit1(ts, rs).c]

polyfit2(ts, rs) ==
    LET m == << << S(ts, 4), S(ts, 3), S(ts, 2) >>,
                << S(ts, 3), S(ts, 2), S(ts, 1) >>,
                << S(ts, 2), S(ts, 1), S(ts, 0) >> >>
        r == << T(ts, rs, 2), T(ts, rs, 1), T(ts, rs, 0) >>
        d == Det3(m)
        col(j) == [i \in 1..3 |-> [k \in 1..3 |-> IF k = j THEN r[i] ELSE m[i][k]]]
        lin == polyfit1(ts, rs)
        h2 == ts[1] * ts[1]
    IN  IF AllZero(ts) THEN [status |-> "zerocol", c |-> <<>>]
        ELSE IF d # 0
        THEN [status |-> "ok",
              c |-> << Frac(Det3(col(1)), d), Frac(Det3(col(2)), d),
                       Frac(Det3(col(3)), d) >>]
        ELSE IF lin.status = "ok" /\ \A i \in DOMAIN ts : ts[i] * ts[i] = h2
        THEN \* abscissae +-h only: the t^2 column is parallel to the constant
             \* column, and the minimum-norm solution gives each half the level
             [status |-> "rankdef",
              c |-> << FDiv(lin.c[2], FInt(2 * h2)), lin.c[1],
                       FDiv(lin.c[2], FInt(2)) >>]
        ELSE [status |-> "rankdef", c |-> <<>>]

polyder(c) ==
    IF Len(c) = 3 THEN << FMul(FInt(2), c[1]), c[2] >>
    ELSE IF Len(c) = 2 THEN << c[1] >>
    ELSE << >>

RECURSIVE polyval(_, _)
polyval(c, t) ==
    IF c = <<>> THEN FInt(0)
    ELSE FAdd(FMul(polyval(SubSeq(c, 1, Len(c) - 1), t), t), c[Len(c)])


(***************************************************************************)
(* Bounds of the model                                                     *)
(***************************************************************************)
MaxBursts == 2      \* files in the sorted file list
MaxSamples == 3     \* ephemeris rows per object in the generator's table
MaxLines == 2       \* lines in one output of the line detector
MaxFitSamples == 4  \* inliers of a Track fitted on its own

(***************************************************************************)
(* The frame: FITS header values of FourFrame.__init__                     *)
(***************************************************************************)
\* DT%04d: the time offset of frame k (one time unit per frame)
FrameTime(k) == k

\* SkyCoord.from_pixel followed by deproject(ra0, dec0, ra, dec): in the narrow
\* field the program works in, the tangent-plane offsets are the CD matrix
\* applied to the pixel offsets from CRPIX (RA grows to the left).
TangentX(x, y) == -2 * (x - 2)
TangentY(x, y) == 2 * (y - 2)

Point(x, y, znum) ==
    [x |-> x, y |-> y, znum |-> znum, t |-> FrameTime(znum),
     rx |-> TangentX(x, y), ry |-> TangentY(x, y)]

(***************************************************************************)
(* Track.__init__                                                          *)
(***************************************************************************)
Field(pts, f) == [i \in DOMAIN pts |-> pts[i][f]]

\* the abscissae t - tmid, doubled to stay integral
Tau2(pts) ==
    LET ts == Field(pts, "t")
    IN  [i \in DOMAIN ts |-> 2 * ts[i] - (MinSeq(ts) + MaxSeq(ts))]

\* a fit on doubled abscissae, as coefficients in t - tmid
Undouble(c) ==
    IF Len(c) = 2 THEN << FMul(FInt(2), c[1]), c[2] >>
    ELSE IF Len(c) = 3 THEN << FMul(FInt(4), c[1]), FMul(FInt(2), c[2]), c[3] >>
    ELSE c

\* np.polyfit(self.t - self.tmid, self.rx, 1) hands lstsq a matrix of NaNs when
\* every inlier shares one frame time, and lstsq raises LinAlgError
TrackFitDegenerate(pts) == polyfit1(Tau2(pts), Field(pts, "rx")).status = "zerocol"

\* no catalog tag
UnsetCospar == "None"

\* the catalog tag of line 187, as characters
PlaceholderCospar == << "2", "2", " ", "5", "0", "0", "A" >>

\* np.polyval(self.px, self.t - self.tmid), on the doubled abscissae of the fit
Fitted(c, taus) == [i \in DOMAIN taus |-> polyval(c, FInt(taus[i]))]

\* the fields Track.__init__ sets, given its four fits: px, py the linear fits of
\* rx, ry and gx, gy the quadratic fits of x, y, all against t - tmid
TrackOf(pts, tmin, tmax, px, py, gx, gy, taus) ==
    [pts |-> pts,
     n |-> Len(pts),
     satno |-> "None",
     cospar |-> "None",
     tmin |-> tmin,
     tmax |-> tmax,
     tmid |-> Frac(tmax + tmin, 2),
     rx0 |-> px[2],
     ry0 |-> py[2],
     drxdt |-> px[1],
     drydt |-> py[1],
     pxdeg |-> 2,
     pxstatus |-> gx.status,
     x0 |-> gx.c[3],
     y0 |-> gy.c[3],
     xp |-> Fitted(gx.c, taus),
     yp |-> Fitted(gy.c, taus)]

Track(pts) ==
    TrackOf(pts, MinSeq(Field(pts, "t")), MaxSeq(Field(pts, "t")),
            Undouble(polyfit1(Tau2(pts), Field(pts, "rx")).c),
            Undouble(polyfit1(Tau2(pts), Field(pts, "ry")).c),
            polyfit2(Tau2(pts), Field(pts, "x")),
            polyfit2(Tau2(pts), Field(pts, "y")),
            Tau2(pts))

\* self.drdt ** 2 and self.dr ** 2 of a Track whose fit is finite
TrackDrdt2(t) == FAdd(FSq(t.drxdt), FSq(t.drydt))
TrackDr2(t) == FMul(TrackDrdt2(t), FSq(FInt(t.tmax - t.tmin)))

(***************************************************************************)
(* Prediction                                                              *)
(***************************************************************************)
\* Prediction.__init__: self.t = 86400 * (mjd - mjd[0]); the table's rows are
\* two time units apart
MakePrediction(satno, n, m) ==
    LET ts == [i \in 1..n |-> 2 * (i - 1)]
    IN  [satno |-> satno,
         t |-> ts,
         rx |-> [i \in 1..n |-> m.x0 + m.vx * ts[i]],
         ry |-> [i \in 1..n |-> m.y0 + m.vy * ts[i]]]

\* lines 46-51 and 94-97: position and velocity at t from the two fits.  pa is
\* kept as the velocity vector it is the bearing of, drdt and dr as their squares.
Evaluated(rx0, ry0, vx, vy, dt) ==
    [nan |-> FALSE, rx0 |-> rx0, ry0 |-> ry0, vx |-> vx, vy |-> vy,
     drdt2 |-> FAdd(FSq(vx), FSq(vy)),
     dr2 |-> FMul(FAdd(FSq(vx), FSq(vy)), FSq(dt))]

Evaluate(px, py, t, dt) ==
    Evaluated(polyval(px, t), polyval(py, t),
              polyval(polyder(px), t), polyval(polyder(py), t), dt)

\* Prediction.position_and_velocity(t, dt): (rx0, ry0, drdt, pa, dr)
position_and_velocity(p, t, dt) ==
    IF Len(p.t) < 3
    THEN [nan |-> TRUE, rx0 |-> FInt(0), ry0 |-> FInt(0), vx |-> FInt(0),
          vy |-> FInt(0), drdt2 |-> FInt(0), dr2 |-> FInt(0)]
    ELSE Evaluate(polyfit2(p.t, p.rx).c, polyfit2(p.t, p.ry).c, t, dt)

\* lines 100-107.  With pa = arctan2(-drxdt, drydt), ca = drydt / drdt and
\* sa = -drxdt / drdt, so
\*   rm  = ca * drx - sa * dry = (drydt * drx + drxdt * dry) / drdt
\*   wm  = sa * drx + ca * dry = (-drxdt * drx + drydt * dry) / drdt
\*   dtm = rm / drdt
\* and at drdt = 0 (pa = 0): rm = drx, wm = dry, dtm = drx / 0.
\* wm is returned as its square wm2.
Rotated(e, drx, dry) ==
    IF FZero(e.drdt2)
    THEN [dtm |-> FloatDiv(drx, FInt(0)), wm2 |-> Num(FSq(dry))]
    ELSE [dtm |-> Num(FDiv(FAdd(FMul(e.vy, drx), FMul(e.vx, dry)), e.drdt2)),
          wm2 |-> Num(FDiv(FSq(FAdd(FMul(FNeg(e.vx), drx), FMul(e.vy, dry))),
                           e.drdt2))]

ResidualAt(e, rx0, ry0) == Rotated(e, FSub(rx0, e.rx0), FSub(ry0, e.ry0))

\* Prediction.residual(t0, rx0, ry0): (dtm, wm)
residual(p, t0, rx0, ry0) ==
    IF Len(p.t) < 3
    THEN [dtm |-> NaN, wm2 |-> NaN]
    ELSE ResidualAt(Evaluate(polyfit2(p.t, p.rx).c, polyfit2(p.t, p.ry).c,
                             t0, FInt(0)),
                    rx0, ry0)

\* process_new.residuals, lines 119-126: what is fitted to a Prediction of n rows
residuals_degree(n) ==
    IF n > 3 THEN "quadratic" ELSE IF n > 2 THEN "linear" ELSE "unavailable"

(***************************************************************************)
(* The identification measures of process_new.py's main loop               *)
(***************************************************************************)
\* the unit vector (cos pa, sin pa) of pa = arctan2(-vx, vy) is (vy, -vx) / |v|;
\* arctan2(-0, 0) = 0 makes a zero velocity point along (vx, vy) = (0, 1)
BearingX(vx, vy) == IF FZero(vx) /\ FZero(vy) THEN FInt(0) ELSE vx
BearingY(vx, vy) == IF FZero(vx) /\ FZero(vy) THEN FInt(1) ELSE vy

\* angle_difference(ang1, ang2) = arccos(x1 * x2 + y1 * y2), kept as the cosine
\* dot / sqrt(a2 * b2) of the two bearings' velocity vectors
angle_difference(ux, uy, wx, wy) ==
    [dot |-> FAdd(FMul(BearingX(ux, uy), BearingX(wx, wy)),
                  FMul(BearingY(ux, uy), BearingY(wx, wy))),
     a2 |-> FAdd(FSq(BearingX(ux, uy)), FSq(BearingY(ux, uy))),
     b2 |-> FAdd(FSq(BearingX(wx, wy)), FSq(BearingY(wx, wy)))]

\* cos(deg)^2 for the limits the model draws
CosSq(deg) ==
    CASE deg \in {30, 150} -> Frac(3, 4)
      [] deg \in {45, 135} -> Frac(1, 2)
      [] deg \in {60, 120} -> Frac(1, 4)
      [] deg = 90 -> FInt(0)
      [] OTHER -> FInt(1)

\* np.abs(ang * 180 / np.pi) < deg for ang = arccos(c) in [0, pi]:
\* c > cos(deg) for 0 < deg <= 180, always for deg > 180, never for deg <= 0
DegBelow(ang, deg) ==
    IF deg <= 0 THEN FALSE
    ELSE IF deg > 180 THEN TRUE
    ELSE IF deg <= 90
    THEN ang.dot.n > 0
         /\ FLt(FMul(CosSq(deg), FMul(ang.a2, ang.b2)), FSq(ang.dot))
    ELSE ang.dot.n >= 0
         \/ FLt(FSq(ang.dot), FMul(CosSq(deg), FMul(ang.a2, ang.b2)))

\* lines 190-193: the four measures of a Prediction against Track t, from what
\* the Prediction's two methods return.  rm is the second value of p.residual
\* (as its square), dpa the cosine record above, fdr the squared ratio
\* (dr / t.dr) ** 2 it is computed from.
MeasuresOf(pv, rs, t) ==
    [dtm |-> rs.dtm,
     rm2 |-> rs.wm2,
     dpanan |-> pv.nan,
     dpa |-> angle_difference(t.drxdt, t.drydt, pv.vx, pv.vy),
     ratio2 |-> IF pv.nan THEN NaN ELSE FloatDiv(pv.dr2, TrackDr2(t))]

Measures(p, t) ==
    MeasuresOf(position_and_velocity(p, t.tmid, FInt(t.tmax - t.tmin)),
               residual(p, t.tmid, t.rx0, t.ry0), t)

\* line 194: the four comparisons, on the measures m and the limits c
CmpDtm(m, c) == AbsBelow(m.dtm, c.dtm_max)
CmpRm(m, c) ==
    m.rm2.kind = "num" /\ FLt(FInt(0), c.rm_max) /\ FLt(m.rm2.v, FSq(c.rm_max))
CmpDpa(m, c) == ~m.dpanan /\ DegBelow(m.dpa, c.dpa_max)
\* np.abs(fdr) < fdr_max with fdr = (ratio - 1) * 100 and ratio >= 0
CmpFdr(m, c) ==
    /\ m.ratio2.kind = "num"
    /\ FLt(FInt(0), c.fdr_max)
    /\ FLt(m.ratio2.v, FSq(FAdd(FInt(1), FDiv(c.fdr_max, FInt(100)))))
    /\ \/ FLt(FInt(100), c.fdr_max)
       \/ FLt(FSq(FSub(FInt(1), FDiv(c.fdr_max, FInt(100)))), m.ratio2.v)

AcceptedIgnoringRate(m, c) == CmpDtm(m, c) /\ CmpRm(m, c) /\ CmpDpa(m, c)

\* the two positional comparisons alone
AcceptedOnPosition(m, c) == CmpDtm(m, c) /\ CmpRm(m, c)

Accepted(m, c) == CmpDtm(m, c) /\ CmpRm(m, c) /\ CmpDpa(m, c) /\ CmpFdr(m, c)

Accept(p, t, c) == Accepted(Measures(p, t), c)

(***************************************************************************)
(* Inputs the model draws: configuration files, frames, the two            *)
(* collaborators' outputs                                                  *)
(***************************************************************************)
IdKeys == {"max_off_track_offset_deg", "max_along_track_offset_s",
           "max_direction_difference_deg", "max_velocity_difference_percent"}
DetKeys == {"trksig", "trkrmin", "ntrkmin"}
ObsKeys == {"latitude", "longitude", "height"}

Limits(dtm, rm, dpa, fdr) ==
    [dtm_max |-> dtm, rm_max |-> rm, dpa_max |-> dpa, fdr_max |-> fdr]
Tight == Limits(Frac(1, 2), FInt(1), 45, FInt(5))
Loose == Limits(FInt(2), FInt(4), 180, FInt(200))

Config(lim, missing) ==
    [dtm_max |-> lim.dtm_max, rm_max |-> lim.rm_max, dpa_max |-> lim.dpa_max,
     fdr_max |-> lim.fdr_max, trkrmin |-> 2, ntrkmin |-> 3, missing |-> missing]

\* config_new.ini: complete with either set of limits, or lacking one option of
\* [Identification] or [LineDetection], or the options of [Observer]
Configs ==
    {Config(lim, {}) : lim \in {Tight, Loose}}
    \cup {Config(Tight, {k}) : k \in IdKeys \cup DetKeys}
    \cup {Config(Tight, ObsKeys)}

\* the significant pixels of a frame, in the raster order of np.ravel
CloudA == << Point(0, 2, 0), Point(1, 2, 1), Point(2, 2, 2), Point(3, 2, 3) >>
CloudB == << Point(1, 0, 0), Point(2, 0, 1), Point(3, 0, 2) >>
CloudFlash == << Point(1, 4, 2), Point(2, 4, 2), Point(3, 4, 2) >>
CloudSparse == << Point(0, 2, 0), Point(1, 2, 1) >>
Clouds == {CloudB \o CloudA, CloudA \o CloudFlash, CloudSparse}

\* lines the detector may print: ax ay az bx by bz n
Line(ax, ay, az, bx, by, bz, n) ==
    [ax |-> ax, ay |-> ay, az |-> az, bx |-> bx, by |-> by, bz |-> bz, n |-> n]
Lines == {Line(0, 2, 0, 1, 0, 1, 4),    \* the streak of CloudA
          Line(1, 0, 0, 1, 0, 1, 3),    \* the streak of CloudB
          Line(0, 2, 0, 2, 0, 1, 3),    \* twice too fast for CloudA
          Line(2, 4, 2, 0, 0, 1, 3),    \* along the frame axis through CloudFlash
          Line(1, 5, 2, 1, 0, 0, 3)}    \* inside one frame: bz = 0

RECURSIVE SeqsUpTo(_, _)
SeqsUpTo(set, k) ==
    IF k = 0 THEN {<<>>}
    ELSE LET shorter == SeqsUpTo(set, k - 1)
         IN  shorter \cup {Append(q, e) : q \in {r \in shorter : Len(r) = k - 1},
                                          e \in set}
\* the detector extracts the line with the most votes first; equal votes are
\* printed in the order of their anchors
Before(l, m) == l.n > m.n \/ (l.n = m.n /\ l.ay < m.ay)
LineLists == {q \in SeqsUpTo(Lines, MaxLines) :
                 \A i, j \in DOMAIN q : i < j => Before(q[i], q[j])}

\* the motions of catalogued objects across the tangent plane
Motion(x0, vx, y0, vy) == [x0 |-> x0, vx |-> vx, y0 |-> y0, vy |-> vy]
Motions == {Motion(4, -2, 0, 0),      \* the motion of CloudA's streak
            Motion(6, -2, 0, 0),      \* displaced in rx
            Motion(4, -2, 2, 0),      \* displaced in ry
            Motion(1, 0, -3, 2),      \* through the same point, turned by 90 deg
            Motion(7, -4, 0, 0),      \* through the same point, twice as fast
            Motion(5, 0, -4, 4)}      \* displaced, turned and twice as fast
SatNos == {25544, 37820}

\* the generator's table: for some objects, n rows along a motion
\* (every motion at full length, the first also cut short)
StreakMotion == Motion(4, -2, 0, 0)
TableRows == [n : {MaxSamples}, m : Motions]
             \cup [n : 2..(MaxSamples - 1), m : {StreakMotion}]
Tables == UNION {[sats -> TableRows] : sats \in SUBSET SatNos}

RECURSIVE Ascending(_)
Ascending(set) ==
    IF set = {} THEN <<>>
    ELSE LET lo == CHOOSE a \in set : \A b \in set : a <= b
         IN  <<lo>> \o Ascending(set \ {lo})


(***************************************************************************)
(* Observation and the report line.  Angles are integers in units of       *)
(* 1e-4 degree; text is a sequence of one-character strings.               *)
(***************************************************************************)
DigitChar(d) == << "0", "1", "2", "3", "4", "5", "6", "7", "8", "9" >>[d + 1]

RECURSIVE Decimal(_)
Decimal(n) ==
    IF n < 10 THEN << DigitChar(n) >>
    ELSE Decimal(n \div 10) \o << DigitChar(n % 10) >>

Repeat(ch, k) == [i \in 1..k |-> ch]

\* "%0<w>d" of n >= 0: at least w characters
ZeroPad(n, w) == Repeat("0", w - Len(Decimal(n))) \o Decimal(n)

\* "%-<w>s": at least w characters
LeftJustify(str, w) == str \o Repeat(" ", w - Len(str))

\* "%0<w>.<k>f" of a value given in units of 10^-k, the point removed
\* afterwards by replace(".", "")
Fixed(units, scale, intwidth, k) ==
    ZeroPad(units \div scale, intwidth) \o ZeroPad(units % scale, k)

\* format_position(ra, de): "%02d%06.3f%c%02d%05.2f" without the points.
\* ram and dem are in units of 1e-4 minute, and are rounded by the format.
format_position(ra, de) ==
    ZeroPad((4 * ra) \div 600000, 2)
    \o Fixed((((4 * ra) % 600000) + 5) \div 10, 1000, 2, 3)
    \o << IF de < 0 THEN "-" ELSE "+" >>
    \o ZeroPad((60 * Abs(de)) \div 600000, 2)
    \o Fixed((((60 * Abs(de)) % 600000) + 50) \div 100, 100, 2, 2)

\* Time(mjd, format="mjd").isot: calendar fields as yyyy-mm-ddThh:mm:ss.sss
IsoT(c) ==
    ZeroPad(c.year, 4) \o << "-" >> \o ZeroPad(c.month, 2) \o << "-" >>
    \o ZeroPad(c.day, 2) \o << "T" >> \o ZeroPad(c.hour, 2) \o << ":" >>
    \o ZeroPad(c.minute, 2) \o << ":" >> \o ZeroPad(c.second, 2) \o << "." >>
    \o ZeroPad(c.milli, 3)

\* str.replace(ch, "")
RECURSIVE Remove(_, _)
Remove(str, chars) ==
    IF str = <<>> THEN <<>>
    ELSE (IF Head(str) \in chars THEN <<>> ELSE << Head(str) >>)
         \o Remove(Tail(str), chars)

\* Observation.to_iod_line
to_iod_line(o) ==
    ZeroPad(o.norad, 5) \o << " " >> \o LeftJustify(o.cospar, 9) \o << " " >>
    \o ZeroPad(o.site_id, 4) \o << " ", "G", " " >>
    \o Remove(o.nfd, {"-", "T", ":", "."})
    \o << " ", "1", "7", " ", "2", "5", " " >>
    \o format_position(o.ra, o.dec)
    \o << " ", "3", "7", " ", "S" >>

\* MJD-OBS of a frame, as the calendar time it stands for
Calendar(y, mo, d, h, mi, sec, ms) ==
    [year |-> y, month |-> mo, day |-> d, hour |-> h, minute |-> mi,
     second |-> sec, milli |-> ms]

\* what Observation reads of a FourFrame: ff.mjd and the CRVAL of ff.w
Frame(epoch, crval1, crval2) == [mjd |-> epoch, crval1 |-> crval1, crval2 |-> crval2]

\* the frame of the bursts: 2022-03-24T18:53:20.708 at (123.4560, -45.6780)
BurstFrame == Frame(Calendar(2022, 3, 24, 18, 53, 20, 708), 1234560, -456780)

\* ff.mjd + t / 86400 for the few seconds of a burst (no carry past the second)
AddSeconds(c, t) ==
    [c EXCEPT !.second = c.second + (c.milli + (1000 * t.n) \div t.d) \div 1000,
              !.milli = (c.milli + (1000 * t.n) \div t.d) % 1000]

\* SkyCoord.from_pixel(x, y, ff.w, 0): CRVAL at CRPIX (2, 2), 0.01 degree per
\* pixel, RA growing to the left
PixelToRa(ff, x) == ff.crval1 - (100 * (x.n - 2 * x.d)) \div x.d
PixelToDec(ff, y) == ff.crval2 + (100 * (y.n - 2 * y.d)) \div y.d

\* an Observation that carries the designation of the object it is identified
\* with
ObservationOfCatalogued(ff, t, x, y, site_id, norad, cospar) ==
    [t |-> t, nfd |-> IsoT(AddSeconds(ff.mjd, t)), x |-> x, y |-> y,
     site_id |-> site_id, norad |-> norad,
     cospar |-> IF norad \in SatNos THEN << "9", "8", " ", "0", "6", "7", "A" >>
                ELSE cospar,
     ra |-> PixelToRa(ff, x), dec |-> PixelToDec(ff, y)]

\* Observation.__init__
Observation(ff, t, x, y, site_id, norad, cospar) ==
    [t |-> t, nfd |-> IsoT(AddSeconds(ff.mjd, t)), x |-> x, y |-> y,
     site_id |-> site_id, norad |-> norad, cospar |-> cospar,
     ra |-> PixelToRa(ff, x), dec |-> PixelToDec(ff, y)]

(***************************************************************************)
(* The run of process_new.py                                               *)
(***************************************************************************)
VARIABLES
    pc,           \* where the script is
    cfg,          \* the configuration file read at line 146
    burst,        \* index in fnames of the file being processed, 0 before the loop
    cloud,        \* the frame's significant pixels
    last,         \* what the last collaborator call of this burst did
    predictions,  \* the list generate_satellite_predictions returned
    tracks,       \* the list find_tracks_by_hough3d returned
    ti,           \* the identification loop: index of the Track
    pj,           \* the identification loop: index of the Prediction
    satno,        \* the loop's local satno
    obs,          \* the Observations appended so far
    printed,      \* the report lines printed for this burst
    err,          \* the exception that ended the run, "none" while it runs
    stages,       \* the stages this burst has entered, in the order entered
    call          \* a function applied on its own: its arguments, locals, result

vars == << pc, cfg, burst, cloud, last, predictions, tracks,
           ti, pj, satno, obs, printed, err, stages, call >>

fnames == 1..MaxBursts

\* no function is applied on its own
NoCall == [fn |-> "none"]

Init ==
    /\ pc = "startup"
    /\ cfg \in Configs
    /\ burst = 0
    /\ cloud = <<>>
    /\ last = "none"
    /\ predictions = <<>>
    /\ tracks = <<>>
    /\ ti = 0
    /\ pj = 0
    /\ satno = 0
    /\ obs = <<>>
    /\ printed = <<>>
    /\ err = "none"
    /\ stages = <<>>
    /\ call = NoCall

Abort(e) == pc' = "aborted" /\ err' = e

\* lines 143-169: the options read before the loop.  getfloat raises for an
\* option that is missing or not a number.
Startup ==
    /\ pc = "startup"
    /\ UNCHANGED call
    /\ IF cfg.missing \cap IdKeys # {}
       THEN Abort("config") /\ UNCHANGED burst
       ELSE IF fnames = {}
       THEN pc' = "done" /\ UNCHANGED << burst, err >>
       ELSE pc' = "open" /\ burst' = 1 /\ UNCHANGED err
    /\ UNCHANGED << cfg, cloud, last, predictions, tracks, ti, pj, satno, obs,
                    printed, stages >>

\* lines 173-174: ff = FourFrame(fname)
OpenBurst ==
    /\ pc = "open"
    /\ UNCHANGED call
    /\ \E c \in Clouds : cloud' = c
    /\ pc' = "predict"
    /\ last' = "none"
    /\ predictions' = <<>>
    /\ tracks' = <<>>
    /\ obs' = <<>>
    /\ printed' = <<>>
    /\ ti' = 0 /\ pj' = 0 /\ satno' = 0
    /\ stages' = <<>>
    /\ UNCHANGED << cfg, burst, err >>

\* FourFrame.generate_satellite_predictions, the list it returns from a table:
\* one Prediction per distinct satno, in the order of np.unique
PredictionsOf(table) ==
    LET sats == Ascending(DOMAIN table)
    IN  [k \in DOMAIN sats |->
            MakePrediction(sats[k], table[sats[k]].n, table[sats[k]].m)]

\* line 177.  csv: whether <fname>.csv exists.  Without it the Observer options
\* are read and the generator is run (check_output raises on a non-zero exit
\* status); then ascii.read parses the table, or raises.
GeneratePredictions ==
    /\ pc = "predict"
    /\ UNCHANGED call
    /\ \E csv \in BOOLEAN :
         \/ /\ ~csv /\ cfg.missing \cap ObsKeys # {}
            /\ Abort("config")
            /\ UNCHANGED << last, predictions >>
         \/ /\ ~csv /\ cfg.missing \cap ObsKeys = {}
            /\ Abort("generator")
            /\ last' = "generator_failed"
            /\ UNCHANGED predictions
         \/ /\ csv \/ cfg.missing \cap ObsKeys = {}
            /\ Abort("table")
            /\ last' = (IF csv THEN "table_reused" ELSE "generator_ran")
            /\ UNCHANGED predictions
         \/ /\ csv \/ cfg.missing \cap ObsKeys = {}
            /\ \E table \in Tables : predictions' = PredictionsOf(table)
            /\ last' = (IF csv THEN "table_reused" ELSE "generator_ran")
            /\ pc' = "detect"
            /\ UNCHANGED err
    /\ stages' = Append(stages, "prediction")
    /\ UNCHANGED << cfg, burst, cloud, tracks, ti, pj, satno, obs, printed >>

\* a point at the distance trkrmin counts as well
InlierInclusive(pt, l, trkrmin) ==
    /\ l.bz # 0
    /\ ((pt.x - l.ax) * l.bz - (pt.znum - l.az) * l.bx)
           * ((pt.x - l.ax) * l.bz - (pt.znum - l.az) * l.bx)
       + ((pt.y - l.ay) * l.bz - (pt.znum - l.az) * l.by)
           * ((pt.y - l.ay) * l.bz - (pt.znum - l.az) * l.by)
       <= trkrmin * trkrmin * l.bz * l.bz

\* lines 420-425: whether a point is within trkrmin of the line at the point's
\* own frame.  bz = 0 makes f infinite or NaN, and r < trkrmin false.
Inlier(pt, l, trkrmin) ==
    /\ l.bz # 0
    /\ ((pt.x - l.ax) * l.bz - (pt.znum - l.az) * l.bx)
           * ((pt.x - l.ax) * l.bz - (pt.znum - l.az) * l.bx)
       + ((pt.y - l.ay) * l.bz - (pt.znum - l.az) * l.by)
           * ((pt.y - l.ay) * l.bz - (pt.znum - l.az) * l.by)
       < trkrmin * trkrmin * l.bz * l.bz

RECURSIVE Select(_, _, _)
Select(pts, l, trkrmin) ==
    IF pts = <<>> THEN <<>>
    ELSE (IF Inlier(Head(pts), l, trkrmin) THEN << Head(pts) >> ELSE <<>>)
         \o Select(Tail(pts), l, trkrmin)

\* line 426: which selections become Tracks
KeepsTrack(sel, ntrkmin) == Len(sel) > 0

\* lines 414-429: the Tracks built from the detector's lines
TrackIfKept(sel, c) == IF KeepsTrack(sel, c.ntrkmin) THEN << Track(sel) >> ELSE <<>>

RECURSIVE BuildTracks(_, _, _)
BuildTracks(lines, pts, c) ==
    IF lines = <<>> THEN <<>>
    ELSE TrackIfKept(Select(pts, Head(lines), c.trkrmin), c)
         \o BuildTracks(Tail(lines), pts, c)

\* whether Track.__init__ raises for one of the selections
Raises(sel, c) == KeepsTrack(sel, c.ntrkmin) /\ TrackFitDegenerate(sel)
AnyDegenerate(lines, pts, c) ==
    \E k \in DOMAIN lines : Raises(Select(pts, lines[k], c.trkrmin), c)

\* line 186: the id of Track i (counted from 0) before any Prediction is examined
DefaultSatnoRepeated(i) == 90000
DefaultSatno(i) == 90000 + i

\* the stages of find_tracks_by_hough3d in the order of its code: the
\* significant pixels (lines 375-388), the detector (395-412), the Tracks
\* (414-429); k of them are entered before it returns or raises
StagesBuildingFirst(k) == SubSeq(<< "building", "detection", "extraction" >>, 1, k)
\* the detector stage is entered whatever the number of points
StagesThroughDetection(k) ==
    SubSeq(<< "extraction", "detection", "building" >>, 1, IF k < 2 THEN 2 ELSE k)
StagesEntered(k) == SubSeq(<< "extraction", "detection", "building" >>, 1, k)

\* find_tracks_by_hough3d returned: line 184's enumerate starts (i = 0)
StartIdentify(trks) ==
    /\ tracks' = trks
    /\ pc' = "identify"
    /\ ti' = 1 /\ pj' = 1
    /\ satno' = DefaultSatno(0)
    /\ UNCHANGED err

\* line 180.  The detector's exit status may be non-zero (caught: no Tracks);
\* decode_line raises on a line it cannot parse; Track.__init__ raises on a
\* selection whose fit is degenerate.
FindTracks ==
    /\ pc = "detect"
    /\ UNCHANGED call
    /\ \/ /\ cfg.missing \cap DetKeys # {}
          /\ Abort("config")
          /\ UNCHANGED << last, tracks, ti, pj, satno, stages >>
       \/ /\ cfg.missing \cap DetKeys = {}
          /\ Len(cloud) < cfg.ntrkmin
          /\ last' = "too_few_points"
          /\ StartIdentify(<<>>)
          /\ stages' = stages \o StagesEntered(1) \o << "identification" >>
       \/ /\ cfg.missing \cap DetKeys = {}
          /\ Len(cloud) >= cfg.ntrkmin
          /\ \/ /\ last' = "detector_failed"
                /\ StartIdentify(<<>>)
                /\ stages' = stages \o StagesEntered(2) \o << "identification" >>
             \/ /\ last' = "detector_ran"
                /\ Abort("detector_output")
                /\ stages' = stages \o StagesEntered(3)
                /\ UNCHANGED << tracks, ti, pj, satno >>
             \/ /\ last' = "detector_ran"
                /\ \E lines \in LineLists :
                     \/ /\ AnyDegenerate(lines, cloud, cfg)
                        /\ Abort("lstsq")
                        /\ stages' = stages \o StagesEntered(3)
                        /\ UNCHANGED << tracks, ti, pj, satno >>
                     \/ /\ ~AnyDegenerate(lines, cloud, cfg)
                        /\ StartIdentify(BuildTracks(lines, cloud, cfg))
                        /\ stages' = stages \o StagesEntered(3)
                                             \o << "identification" >>
    /\ UNCHANGED << cfg, burst, cloud, predictions, obs, printed >>

\* lines 188-195: one Prediction examined for the current Track
IdentifyStep ==
    /\ pc = "identify"
    /\ UNCHANGED call
    /\ ti <= Len(tracks)
    /\ pj <= Len(predictions)
    /\ satno' = IF Accept(predictions[pj], tracks[ti], cfg)
                THEN predictions[pj].satno
                ELSE satno
    /\ pj' = pj + 1
    /\ UNCHANGED << pc, cfg, burst, cloud, last, predictions, tracks, ti, obs,
                    printed, err, stages >>

\* lines 198-202: the Track takes the id, an Observation is appended, and the
\* enumerate moves on (line 186: satno = 90000 + i)
FinishTrack ==
    /\ pc = "identify"
    /\ UNCHANGED call
    /\ ti <= Len(tracks)
    /\ pj > Len(predictions)
    /\ tracks' = [tracks EXCEPT ![ti].satno = satno,
                                ![ti].cospar = PlaceholderCospar]
    /\ obs' = Append(obs, Observation(BurstFrame, tracks[ti].tmid, tracks[ti].x0,
                                      tracks[ti].y0, 4171, satno,
                                      PlaceholderCospar))
    /\ ti' = ti + 1
    /\ pj' = 1
    /\ satno' = DefaultSatno(ti)
    /\ UNCHANGED << pc, cfg, burst, cloud, last, predictions, printed, err,
                    stages >>

\* lines 204-206: the report lines, then the next file of the list
Report ==
    /\ pc = "identify"
    /\ UNCHANGED call
    /\ ti > Len(tracks)
    /\ printed' = [k \in DOMAIN obs |-> to_iod_line(obs[k])]
    /\ IF burst + 1 \in fnames
       THEN pc' = "open" /\ burst' = burst + 1
       ELSE pc' = "done" /\ UNCHANGED burst
    /\ stages' = Append(stages, "report")
    /\ UNCHANGED << cfg, cloud, last, predictions, tracks, ti, pj, satno, obs, err >>

Next ==
    \/ Startup
    \/ OpenBurst
    \/ GeneratePredictions
    \/ FindTracks
    \/ IdentifyStep
    \/ FinishTrack
    \/ Report

Spec == Init /\ [][Next]_vars

(***************************************************************************)
(* Observation.to_iod_line on its own: an Observation is constructed and    *)
(* its report line printed                                                  *)
(***************************************************************************)
\* ids an Observation is constructed with: catalogued objects, and line 186's
\* id for the first Tracks of a burst and for its 10000th and 10001st
TrackIndices == {0, 1, 9999, 10000}
ObjectIds == {5} \cup SatNos \cup {DefaultSatno(i) : i \in TrackIndices}
Cospars == {PlaceholderCospar, << "9", "8", " ", "0", "6", "7", "A" >>}
SiteIds == {4171, 1}
Epochs == {Calendar(2022, 3, 24, 18, 53, 20, 708),
           Calendar(1999, 12, 31, 23, 59, 59, 999),
           Calendar(2024, 1, 2, 3, 4, 5, 6)}
RightAscensions == {1234560, 0, 50000, 3599999}
Declinations == {-456780, 0, -5000, 899999}
Frames == {Frame(e, ra, dec) : e \in Epochs, ra \in RightAscensions,
                                dec \in Declinations}

InitFmt ==
    /\ pc = "format"
    /\ cfg = Config(Tight, {})
    /\ burst = 0
    /\ cloud = <<>>
    /\ last = "none"
    /\ predictions = <<>>
    /\ tracks = <<>>
    /\ ti = 0
    /\ pj = 0
    /\ satno = 0
    /\ \E ff \in Frames, site \in SiteIds, id \in ObjectIds, tag \in Cospars :
          obs = << Observation(ff, FInt(0), FInt(2), FInt(2), site, id, tag) >>
    /\ printed = <<>>
    /\ err = "none"
    /\ stages = <<>>
    /\ call = NoCall

\* lines 204-206 for one Observation
FormatLine ==
    /\ pc = "format"
    /\ UNCHANGED call
    /\ printed' = [k \in DOMAIN obs |-> to_iod_line(obs[k])]
    /\ pc' = "formatted"
    /\ UNCHANGED << cfg, burst, cloud, last, predictions, tracks, ti, pj, satno,
                    obs, err, stages >>

NextFmt == FormatLine

SpecFmt == InitFmt /\ [][NextFmt]_vars

(***************************************************************************)
(* Track.__init__ on its own: a Track is constructed from inliers that all  *)
(* lie in different frames                                                  *)
(***************************************************************************)
Pixels == (0..2) \X (0..1)
FitFrames == 0..(MaxFitSamples - 1)

\* the pixels of a set in the raster order of np.ravel (rows of y, then x)
RECURSIVE Raster(_)
Raster(set) ==
    IF set = {} THEN <<>>
    ELSE LET first == CHOOSE a \in set :
                         \A b \in set : a[2] < b[2] \/ (a[2] = b[2] /\ a[1] <= b[1])
         IN  << first >> \o Raster(set \ {first})

Injective(f) == \A i, j \in DOMAIN f : i # j => f[i] # f[j]

\* every pixel holds the frame number of its maximum: n pixels, n frames
InliersOf(pix, znum) == [i \in DOMAIN pix |-> Point(pix[i][1], pix[i][2], znum[i])]
FitClouds ==
    UNION {{InliersOf(Raster(set), znum) :
               znum \in {f \in [1..Cardinality(set) -> FitFrames] : Injective(f)}} :
           set \in {q \in SUBSET Pixels : Cardinality(q) \in 3..MaxFitSamples}}

InitFit ==
    /\ pc = "fit"
    /\ cfg = Config(Tight, {})
    /\ burst = 0
    /\ cloud \in FitClouds
    /\ last = "none"
    /\ predictions = <<>>
    /\ tracks = <<>>
    /\ ti = 0
    /\ pj = 0
    /\ satno = 0
    /\ obs = <<>>
    /\ printed = <<>>
    /\ err = "none"
    /\ stages = <<>>
    /\ call = NoCall

\* line 427 for one selection: Track(t[c], x[c], y[c], ...)
ConstructTrack ==
    /\ pc = "fit"
    /\ UNCHANGED call
    /\ tracks' = << Track(cloud) >>
    /\ pc' = "fitted"
    /\ UNCHANGED << cfg, burst, cloud, last, predictions, ti, pj, satno, obs,
                    printed, err, stages >>

NextFit == ConstructTrack

SpecFit == InitFit /\ [][NextFit]_vars

(***************************************************************************)
(* Functions applied on their own.  The main program stays where           *)
(* construction left it; `call` holds the arguments, locals and result.    *)
(***************************************************************************)
program == << pc, cfg, burst, cloud, last, predictions, tracks, ti, pj, satno,
              obs, printed, err, stages >>

NotRunning ==
    /\ pc = "call"
    /\ cfg = Config(Tight, {})
    /\ burst = 0
    /\ cloud = <<>>
    /\ last = "none"
    /\ predictions = <<>>
    /\ tracks = <<>>
    /\ ti = 0
    /\ pj = 0
    /\ satno = 0
    /\ obs = <<>>
    /\ printed = <<>>
    /\ err = "none"
    /\ stages = <<>>

(***************************************************************************)
(* process_new.angle_difference in double precision.  An angle is the      *)
(* bearing arctan2(-vx, vy) of an integer vector plus a number of whole    *)
(* turns.  x1 * x2 + y1 * y2 is evaluated in doubles: for a bearing along  *)
(* an axis the products are exact up to terms far below one unit in the    *)
(* last place, for any other bearing the sum lands on the exact cosine or  *)
(* one unit in the last place beside it.  All three occur for the pair     *)
(* (a, a): a = 0.5 gives 1.0, a = 2.7513288946214995 gives                 *)
(* 1.0000000000000002 and a = arctan2(1, 2) gives 0.9999999999999999.      *)
(* The rounding is therefore a choice among the three.  Both argument      *)
(* orders multiply and add the same doubles, so they round alike.          *)
(***************************************************************************)
MaxTurns == 1

Components == -2..2

Angles ==
    {[vx |-> v[1], vy |-> v[2], turns |-> k] :
        v \in (Components \X Components) \ {<< 0, 0 >>}, k \in 0..MaxTurns}

AlongAxis(a) == a.vx = 0 \/ a.vy = 0

\* the units in the last place by which the doubles' dot product may miss
Roundings(a1, a2) == IF AlongAxis(a1) /\ AlongAxis(a2) THEN {0} ELSE {-1, 0, 1}

\* the exact cosine of ang is 1 (sign = 1) or -1 (sign = -1)
CosineIs(ang, sign) ==
    /\ ang.dot.n * sign > 0
    /\ FSq(ang.dot) = FMul(ang.a2, ang.b2)

\* np.arccos of the rounded dot product: nan outside [-1, 1]
Arccos(ang, e) ==
    IF (CosineIs(ang, 1) /\ e > 0) \/ (CosineIs(ang, -1) /\ e < 0)
    THEN [kind |-> "nan"]
    ELSE [kind |-> "num", ang |-> ang, e |-> e]

\* lines 136-140 for ang1 = a1, ang2 = a2 with the dot product rounded by e
AngleDifferenceOf(a1, a2, e) ==
    Arccos(angle_difference(FInt(a1.vx), FInt(a1.vy), FInt(a2.vx), FInt(a2.vy)),
           e)

InitAngle ==
    /\ NotRunning
    /\ \E a1 \in Angles, a2 \in Angles :
          call = [fn |-> "angle_difference", at |-> "called",
                  ang1 |-> a1, ang2 |-> a2]

\* angle_difference(ang1, ang2) and angle_difference(ang2, ang1)
AngleDifference ==
    /\ call.fn = "angle_difference"
    /\ call.at = "called"
    /\ \E e \in Roundings(call.ang1, call.ang2) :
          call' = [fn |-> "angle_difference", at |-> "returned",
                   ang1 |-> call.ang1, ang2 |-> call.ang2,
                   result |-> AngleDifferenceOf(call.ang1, call.ang2, e),
                   swapped |-> AngleDifferenceOf(call.ang2, call.ang1, e)]
    /\ UNCHANGED program

NextAngle == AngleDifference

SpecAngle == InitAngle /\ [][NextAngle]_vars

(***************************************************************************)
(* deproject (fourframe.py lines 489-521, the same text in process_new.py  *)
(* lines 76-108).  An angle in degrees is given by its cosine and sine; the *)
(* model draws the angles whose cosine and sine are rational with         *)
(* denominator 1 or 5, so the vector and both rotations are computed       *)
(* exactly.  r[0] is then rounded as the doubles round it: exactly when    *)
(* every angle lies along an axis, else to the exact value or one unit in  *)
(* the last place beside it (deproject(0, -12, 0, -12) has r[0] =          *)
(* 1.0000000000000002, deproject(10, 20, 10, 20) has 0.9999999999999999,   *)
(* deproject(45, 45, 45, 45) has 1.0).                                     *)
(***************************************************************************)
Fifths == {<< 3, 4 >>, << 4, 3 >>}

\* (cos, sin) of the longitudes drawn
Longitudes ==
    {[c |-> FInt(v[1]), s |-> FInt(v[2])] :
        v \in {<< 1, 0 >>, << 0, 1 >>, << -1, 0 >>, << 0, -1 >>}}
    \cup {[c |-> Frac(i * v[1], 5), s |-> Frac(j * v[2], 5)] :
             v \in Fifths, i \in {-1, 1}, j \in {-1, 1}}

\* latitudes lie in [-90, 90] degrees: their cosine is not negative
Latitudes == {a \in Longitudes : a.c.n >= 0}

OnAxis(a) == FZero(a.c) \/ FZero(a.s)

\* lines 496-498: To vector
ToVector(lt, bt) == << FMul(lt.c, bt.c), FMul(lt.s, bt.c), bt.s >>

\* lines 501-504 and 511: r = Rl.dot(r)
RotateL(l0t, r) ==
    << FAdd(FMul(l0t.c, r[1]), FMul(l0t.s, r[2])),
       FAdd(FMul(FNeg(l0t.s), r[1]), FMul(l0t.c, r[2])),
       r[3] >>

\* lines 505-508 and 512: r = Rb.dot(r)
RotateB(b0t, r) ==
    << FAdd(FMul(b0t.c, r[1]), FMul(b0t.s, r[3])),
       r[2],
       FAdd(FMul(FNeg(b0t.s), r[1]), FMul(b0t.c, r[3])) >>

\* lines 515-521 on the rotated vector r with r[0] rounded by e units in the
\* last place: radius = arccos(r[0]) is nan above 1 and below -1, and nan
\* offsets follow; otherwise the offsets are radius * (sin, cos) of
\* arctan2(r[1], r[2]), kept as r and e
Offsets(r, e) ==
    IF (r[1] = FInt(1) /\ e > 0) \/ (r[1] = FInt(-1) /\ e < 0)
    THEN [kind |-> "nan"]
    ELSE [kind |-> "num", r |-> r, e |-> e]

deproject(l0, b0, l, b, e) == Offsets(RotateB(b0, RotateL(l0, ToVector(l, b))), e)

DeprojectRoundings(l0, b0, l, b) ==
    IF OnAxis(l0) /\ OnAxis(b0) /\ OnAxis(l) /\ OnAxis(b) THEN {0} ELSE {-1, 0, 1}

InitDeproject ==
    /\ NotRunning
    /\ \E l0 \in Longitudes, b0 \in Latitudes, l \in Longitudes, b \in Latitudes :
          call = [fn |-> "deproject", at |-> "called",
                  l0 |-> l0, b0 |-> b0, l |-> l, b |-> b]

Deproject ==
    /\ call.fn = "deproject"
    /\ call.at = "called"
    /\ \E e \in DeprojectRoundings(call.l0, call.b0, call.l, call.b) :
          call' = [fn |-> "deproject", at |-> "returned",
                   l0 |-> call.l0, b0 |-> call.b0, l |-> call.l, b |-> call.b,
                   result |-> deproject(call.l0, call.b0, call.l, call.b, e)]
    /\ UNCHANGED program

NextDeproject == Deproject

SpecDeproject == InitDeproject /\ [][NextDeproject]_vars

(***************************************************************************)
(* stvid.external.get_bin_path and its two uses in stvid.stio.  The        *)
(* arguments are an executable (one name, or a sequence of names) and the  *)
(* names that shutil.which resolves to a file.  Reaching the function      *)
(* means importing stvid.external: lines 11-12 end a statement with a      *)
(* dangling `+`, so compiling the module raises SyntaxError before any     *)
(* definition is executed.  stvid.stio calls get_bin_path at lines 16-17   *)
(* without importing it, so importing stvid.stio raises NameError.         *)
(***************************************************************************)
MaxCandidates == 2

Names == {"satpredict", "hough3dlines", "sp"}

\* executable (str or Sequence of str)
Executables ==
    {[str |-> TRUE, name |-> n] : n \in Names}
    \cup {[str |-> FALSE, names |-> q] : q \in SeqsUpTo(Names, MaxCandidates)}

InitBin ==
    /\ NotRunning
    /\ \/ \E x \in Executables, files \in SUBSET Names :
             call = [fn |-> "get_bin_path", module |-> "stvid.external",
                     at |-> "called", executable |-> x, which |-> files]
       \/ \E n \in {"satpredict", "hough3dlines"}, files \in SUBSET Names :
             call = [fn |-> "get_bin_path", module |-> "stvid.stio",
                     at |-> "called",
                     executable |-> [str |-> TRUE, name |-> n], which |-> files]

\* `from stvid.external import get_bin_path` followed by the call: the import
\* fails to compile external.py
ImportExternal ==
    /\ call.fn = "get_bin_path"
    /\ call.module = "stvid.external"
    /\ call.at = "called"
    /\ call' = [call EXCEPT !.at = "raised"] @@ [error |-> "SyntaxError"]
    /\ UNCHANGED program

\* `import stvid.stio`: lines 16-17 name get_bin_path, which lines 1-15
\* never bind
ImportStio ==
    /\ call.fn = "get_bin_path"
    /\ call.module = "stvid.stio"
    /\ call.at = "called"
    /\ call' = [call EXCEPT !.at = "raised"] @@ [error |-> "NameError"]
    /\ UNCHANGED program

NextBin == ImportExternal \/ ImportStio

SpecBin == InitBin /\ [][NextBin]_vars

(***************************************************************************)
(* ASICamera.fix_autogain (camera.py lines 131-149).  The camera is the    *)
(* environment: with automatic gain it reports whatever gain it has        *)
(* settled on when a frame has been captured.  `readings` and `writes`     *)
(* record the calls made on the camera, `configured` the gain the          *)
(* configuration held when the method was entered.                         *)
(***************************************************************************)
MaxFrames == 5
MaxGain == 2

Gains == 0..MaxGain

\* a write of the gain that switches automatic gain off
GainWriteManual(gain) == [control |-> "ASI_GAIN", value |-> gain, auto |-> FALSE]

\* line 146: self.camera.set_control_value(self.asi.ASI_GAIN, gain, auto=True)
GainWrite(gain) == [control |-> "ASI_GAIN", value |-> gain, auto |-> TRUE]

\* line 135: gain = self.cfg["gain"]
InitGain ==
    /\ NotRunning
    /\ \E g \in Gains :
          call = [fn |-> "fix_autogain", at |-> "loop", configured |-> g,
                  cfg |-> [gain |-> g], gain |-> g,
                  readings |-> <<>>, writes |-> <<>>]

\* lines 136-146, one pass of the loop in which the camera reports reading:
\* the gain has changed, it is taken over and written back
GainChanged(reading) ==
    /\ call.gain # reading
    /\ call' = [call EXCEPT !.readings = Append(@, reading),
                            !.gain = reading,
                            !.writes = Append(@, GainWrite(reading))]

\* a pass that reads the gain and loops again whatever it is
GainConstantIgnored(reading) ==
    /\ call.gain = reading
    /\ call' = [call EXCEPT !.readings = Append(@, reading)]

\* lines 136-143 and 149: the gain has not changed, the loop is left and the
\* configuration updated
GainConstant(reading) ==
    /\ call.gain = reading
    /\ call' = [call EXCEPT !.readings = Append(@, reading),
                            !.at = "returned",
                            !.cfg = [gain |-> call.gain]]

CaptureFrame ==
    /\ call.fn = "fix_autogain"
    /\ call.at = "loop"
    /\ Len(call.readings) < MaxFrames
    /\ \E reading \in Gains : GainChanged(reading) \/ GainConstant(reading)
    /\ UNCHANGED program

NextGain == CaptureFrame

SpecGain == InitGain /\ [][NextGain]_vars

(***************************************************************************)
(* fix_autogain with a camera whose automatic gain settles: the gain it    *)
(* reports changes from one frame to the next at most MaxChanges times.    *)
(* capture_video_frame returns for every frame asked for, so the loop      *)
(* keeps taking passes while it has not been left.                         *)
(***************************************************************************)
MaxChanges == MaxFrames - 2

\* how often the reported gain differed from the one reported a frame earlier
CameraChanges(q) == Cardinality({i \in 2..Len(q) : q[i] # q[i - 1]})

\* the camera's gain stays what it last reported
CameraSettled ==
    /\ call.fn = "fix_autogain"
    /\ call.readings # <<>>
    /\ CameraChanges(call.readings) >= MaxChanges

CameraMayReport(reading) ==
    CameraSettled => reading = call.readings[Len(call.readings)]

\* lines 136-146, one pass of the loop with such a camera
CaptureFrameSettling ==
    /\ call.fn = "fix_autogain"
    /\ call.at = "loop"
    /\ Len(call.readings) < MaxFrames
    /\ \E reading \in Gains :
          /\ CameraMayReport(reading)
          /\ GainChanged(reading) \/ GainConstant(reading)
    /\ UNCHANGED program

NextGainSettling == CaptureFrameSettling

SpecGainSettling ==
    InitGain /\ [][NextGainSettling]_vars /\ WF_vars(CaptureFrameSettling)

(***************************************************************************)
(* stvid.config.load_config_section (config.py lines 23-36) as             *)
(* ASICamera.__init__ calls it (camera.py lines 32-46), for one key of     *)
(* each declared type.  The section maps an option to its text, or to      *)
(* Missing.  SectionProxy.getint, getboolean and get return None for a     *)
(* missing option.  config.py imports only sys and configparser: the name  *)
(* ConfigError is bound in stvid.camera, not in stvid.config, so           *)
(* evaluating `raise ConfigError(...)` at line 33 raises NameError.        *)
(***************************************************************************)
Missing == << "<missing>" >>

\* the texts an option is given in the section
Texts == {<< "1", "0" >>, << "1" >>, << "y", "e", "s" >>, << "n", "o" >>, << "a" >>}

\* camera.py lines 32-44, one key of each type
keys == << [key |-> "gain", type |-> "int"],
           [key |-> "autogain", type |-> "bool"],
           [key |-> "sdk", type |-> "str"] >>

Sections == [{keys[i].key : i \in DOMAIN keys} -> Texts \cup {Missing}]

DecimalDigits == << "0", "1", "2", "3", "4", "5", "6", "7", "8", "9" >>

RECURSIVE IntOf(_)
IntOf(text) ==
    IF text = <<>> THEN 0
    ELSE 10 * IntOf(SubSeq(text, 1, Len(text) - 1))
         + (CHOOSE d \in 0..9 : DecimalDigits[d + 1] = text[Len(text)])

\* cfg.getint(key): int(text), ValueError for text that is no decimal number
getint(text) ==
    IF text = Missing THEN [kind |-> "None"]
    ELSE IF \A k \in DOMAIN text : \E d \in 0..9 : DecimalDigits[d + 1] = text[k]
    THEN [kind |-> "int", v |-> IntOf(text)]
    ELSE [kind |-> "ValueError"]

\* cfg.getboolean(key): the states of configparser.BOOLEAN_STATES
getboolean(text) ==
    IF text = Missing THEN [kind |-> "None"]
    ELSE IF text \in {<< "1" >>, << "y", "e", "s" >>} THEN [kind |-> "bool", v |-> TRUE]
    ELSE IF text \in {<< "0" >>, << "n", "o" >>} THEN [kind |-> "bool", v |-> FALSE]
    ELSE [kind |-> "ValueError"]

\* cfg.get(key)
getstr(text) ==
    IF text = Missing THEN [kind |-> "None"] ELSE [kind |-> "str", v |-> text]

\* lines 24-34: get(key, _type); the raise at line 33 fails on its own name
get(section, k) ==
    LET value == CASE k.type = "int" -> getint(section[k.key])
                   [] k.type = "bool" -> getboolean(section[k.key])
                   [] k.type = "str" -> getstr(section[k.key])
    IN  IF value.kind = "None" THEN [kind |-> "NameError"] ELSE value

\* line 36: the dict comprehension, which the first exception leaves
RECURSIVE Comprehension(_, _, _)
Comprehension(section, i, dict) ==
    IF i > Len(keys) THEN [at |-> "returned", result |-> dict]
    ELSE IF get(section, keys[i]).kind \in {"NameError", "ValueError"}
    THEN [at |-> "raised", error |-> get(section, keys[i]).kind,
          key |-> keys[i].key]
    ELSE Comprehension(section, i + 1,
                       dict @@ (keys[i].key :> get(section, keys[i])))

load_config_section(parent_section, section) ==
    [parent_section |-> parent_section] @@ Comprehension(section, 1, << >>)

InitConfig ==
    /\ NotRunning
    /\ \E section \in Sections :
          call = [fn |-> "load_config_section", at |-> "called",
                  section |-> section]

\* camera.py line 46: self.cfg = load_config_section('ASI', asi_cfg, keys)
LoadConfigSection ==
    /\ call.fn = "load_config_section"
    /\ call.at = "called"
    /\ call' = [fn |-> "load_config_section", section |-> call.section]
               @@ load_config_section("ASI", call.section)
    /\ UNCHANGED program

NextConfig == LoadConfigSection

SpecConfig == InitConfig /\ [][NextConfig]_vars

(***************************************************************************)
(* Prediction.residual (fourframe.py lines 81-107) applied to a Prediction *)
(* of three rows that moves from the origin with velocity (vx, vy), for a  *)
(* point (rx0, ry0) at time t0.                                            *)
(***************************************************************************)
Instants == {0, 2}

InitResidual ==
    /\ NotRunning
    /\ \E vx \in Components, vy \in Components, t0 \in Instants,
          rx0 \in Components, ry0 \in Components :
          call = [fn |-> "residual", at |-> "called",
                  m |-> Motion(0, vx, 0, vy), t0 |-> t0,
                  rx0 |-> rx0, ry0 |-> ry0]

\* dtm, wm = p.residual(t0, rx0, ry0)
Residual ==
    /\ call.fn = "residual"
    /\ call.at = "called"
    /\ call' = [call EXCEPT !.at = "returned"]
               @@ [result |-> residual(MakePrediction(25544, 3, call.m),
                                       FInt(call.t0), FInt(call.rx0),
                                       FInt(call.ry0))]
    /\ UNCHANGED program

NextResidual == Residual

SpecResidual == InitResidual /\ [][NextResidual]_vars

(***************************************************************************)
(* FourFrame.find_tracks_by_hough3d (fourframe.py lines 368-429) on its    *)
(* own, from the image planes to the Tracks.  A frame gives every pixel    *)
(* its zmax - zavg and its zstd, both in units of 1e-9 (the term line 248  *)
(* adds to zstd), and its znum.  The pixels are held in the raster order   *)
(* of np.ravel.                                                            *)
(***************************************************************************)
FramePixels == (0..1) \X (0..1)
FrameNumbers == 0..1

\* (zmax - zavg, zstd) in units of 1e-9: six and five standard deviations, five
\* standard deviations and 3e-9, and a pixel that never changed
PixelValues ==
    {[diff |-> 600000000, std |-> 100000000],
     [diff |-> 500000000, std |-> 100000000],
     [diff |-> 500000003, std |-> 100000000],
     [diff |-> 0, std |-> 0]}

ImagePlanes ==
    [1..Cardinality(FramePixels) ->
        [diff : {v.diff : v \in PixelValues}, std : {v.std : v \in PixelValues},
         znum : FrameNumbers]]

\* a frame whose pixels hold values of PixelValues
FrameOk(frame) ==
    \A k \in DOMAIN frame : [diff |-> frame[k].diff, std |-> frame[k].std] \in PixelValues

\* (zmax - zavg) / zstd at or above sigma
SignificantFrom(v, sigma) == v.diff >= sigma * v.std

\* lines 248 and 375: zsig = (zmax - zavg) / (zstd + 1e-9) and zsig > sigma,
\* cleared of the positive denominator
Significant(v, sigma) == v.diff > sigma * (v.std + 1)

\* lines 376-380: x, y, znum, t of the pixels that c selects, in raster order
RECURSIVE ExtractFrom(_, _, _, _)
ExtractFrom(frame, pix, sigma, k) ==
    IF k > Len(pix) THEN <<>>
    ELSE (IF Significant(frame[k], sigma)
          THEN << Point(pix[k][1], pix[k][2], frame[k].znum) >>
          ELSE <<>>)
         \o ExtractFrom(frame, pix, sigma, k + 1)

\* "%f" of a whole number that is not negative
FormatF(n) == Decimal(n) \o << ".", "0", "0", "0", "0", "0", "0" >>

\* line 400: f"{x[i]:f},{y[i]:f},{znum[i]:f}\n"
PointLine(pt) ==
    FormatF(pt.x) \o << "," >> \o FormatF(pt.y) \o << "," >> \o FormatF(pt.znum)
    \o << "\n" >>

\* lines 398-400: the text written to the temporary file
PointFile(pts) == [i \in DOMAIN pts |-> PointLine(pts[i])]

\* lines the detector may print for such a frame
HoughLines == {Line(0, 0, 0, 1, 0, 1, 4),    \* along x, one pixel per frame
               Line(0, 1, 0, 0, 0, 1, 3),    \* at rest in (0, 1)
               Line(1, 1, 0, 1, 0, 0, 3),    \* inside one frame: bz = 0
               Line(0, 0, 0, 1, 1, 2, 3)}    \* along the diagonal, half a pixel per frame
HoughOutputs == {q \in SeqsUpTo(HoughLines, MaxLines) :
                    \A i, j \in DOMAIN q : i < j => Before(q[i], q[j])}

\* the temporary file is left behind
FinallySkipped(tmpfile) == tmpfile

\* lines 411-412: finally: os.remove(tmpfile_path)
Finally(tmpfile) == "removed"

InitHough ==
    /\ NotRunning
    /\ \E frame \in ImagePlanes, r \in {1, 2} :
          /\ FrameOk(frame)
          /\ call = [fn |-> "find_tracks_by_hough3d", at |-> "called",
                     frame |-> frame, sigma |-> 5, trkrmin |-> r, ntrkmin |-> 3,
                     points |-> <<>>, tmpfile |-> "none", written |-> <<>>,
                     runs |-> 0, lines |-> <<>>, result |-> <<>>,
                     error |-> "none"]

\* lines 374-388: the significant pixels
ExtractPoints ==
    /\ call.fn = "find_tracks_by_hough3d"
    /\ call.at = "called"
    /\ call' = [call EXCEPT !.at = "extracted",
                            !.points = ExtractFrom(call.frame, Raster(FramePixels),
                                                   call.sigma, 1)]
    /\ UNCHANGED program

\* lines 390-392: Skip if not enough points
SkipTooFew ==
    /\ call.fn = "find_tracks_by_hough3d"
    /\ call.at = "extracted"
    /\ Len(call.points) < call.ntrkmin
    /\ call' = [call EXCEPT !.at = "returned", !.result = <<>>]
    /\ UNCHANGED program

\* lines 394-412: the temporary file is made, written and handed to the
\* detector; writing may fail (OSError), the detector may fail (caught:
\* return []); the finally clause runs on each way out
DetectLines ==
    /\ call.fn = "find_tracks_by_hough3d"
    /\ call.at = "extracted"
    /\ Len(call.points) >= call.ntrkmin
    /\ \/ \E k \in 0..(Len(call.points) - 1) :
             call' = [call EXCEPT !.at = "raised", !.error = "OSError",
                                  !.written = SubSeq(PointFile(call.points), 1, k),
                                  !.tmpfile = Finally("exists")]
       \/ call' = [call EXCEPT !.at = "returned", !.result = <<>>,
                               !.written = PointFile(call.points),
                               !.runs = 1,
                               !.tmpfile = Finally("exists")]
       \/ \E lines \in HoughOutputs :
             call' = [call EXCEPT !.at = "decoded", !.lines = lines,
                                  !.written = PointFile(call.points),
                                  !.runs = 1,
                                  !.tmpfile = Finally("exists")]
    /\ UNCHANGED program

\* lines 414-429: a Track for every line that selects a point; Track.__init__
\* raises on a selection whose fit is degenerate
BuildFromLines ==
    /\ call.fn = "find_tracks_by_hough3d"
    /\ call.at = "decoded"
    /\ IF AnyDegenerate(call.lines, call.points, call)
       THEN call' = [call EXCEPT !.at = "raised", !.error = "LinAlgError"]
       ELSE call' = [call EXCEPT !.at = "returned",
                                 !.result = BuildTracks(call.lines, call.points,
                                                        call)]
    /\ UNCHANGED program

NextHough == ExtractPoints \/ SkipTooFew \/ DetectLines \/ BuildFromLines

SpecHough == InitHough /\ [][NextHough]_vars

(***************************************************************************)
(* FourFrame.generate_satellite_predictions on its own: calls for one      *)
(* burst, with the output table <fname>.csv as the file system holds it    *)
(***************************************************************************)
MaxCalls == 2

\* the configurations handed to a call: complete, or without [Observer]
PredictConfigs == {c \in Configs : c.missing \in {{}, ObsKeys}}

EmptyTable == CHOOSE t \in Tables : DOMAIN t = {}

\* <fname>.csv: absent, not a table ascii.read can parse, or a table
NoFile == [exists |-> FALSE, wellformed |-> FALSE, table |-> EmptyTable]
BadFile == [exists |-> TRUE, wellformed |-> FALSE, table |-> EmptyTable]
TableFile(t) == [exists |-> TRUE, wellformed |-> TRUE, table |-> t]

\* the generator runs on every call
RunsGeneratorAlways(exists) == TRUE

\* line 316: if not os.path.exists(outfname)
RunsGenerator(exists) == ~exists

\* one call as it ended: the cfg passed, whether <fname>.csv existed on entry,
\* whether the generator was invoked, and what was returned or raised
Ended(c, file, ran, outcome, error, preds) ==
    [cfg |-> c, found |-> file.exists, ran |-> ran, outcome |-> outcome,
     error |-> error, predictions |-> preds]

InitPredict ==
    /\ NotRunning
    /\ \E file \in {NoFile, BadFile} \cup {TableFile(t) : t \in Tables} :
          call = [fn |-> "generate_satellite_predictions", csv |-> file,
                  calls |-> <<>>]

\* lines 333-358: ascii.read and one Prediction per np.unique(d["satno"])
ReadTable(c, before, file, ran) ==
    IF file.wellformed
    THEN Ended(c, before, ran, "returned", "none", PredictionsOf(file.table))
    ELSE Ended(c, before, ran, "raised", "table", <<>>)

\* lines 311-358, one call.  Without the file the Observer options are read
\* (getfloat raises on a missing one) and the generator is run: check_output
\* raises on a non-zero exit status, whatever the generator left on disk.
GenerateSatellitePredictions ==
    /\ call.fn = "generate_satellite_predictions"
    /\ Len(call.calls) < MaxCalls
    /\ \E c \in PredictConfigs :
         \/ /\ RunsGenerator(call.csv.exists)
            /\ c.missing \cap ObsKeys # {}
            /\ call' = [call EXCEPT !.calls =
                          Append(@, Ended(c, call.csv, FALSE, "raised", "config",
                                          <<>>))]
         \/ /\ RunsGenerator(call.csv.exists)
            /\ c.missing \cap ObsKeys = {}
            /\ \E left \in {call.csv, BadFile} :
                 call' = [call EXCEPT !.csv = left,
                                      !.calls =
                          Append(@, Ended(c, call.csv, TRUE, "raised",
                                          "generator", <<>>))]
         \/ /\ RunsGenerator(call.csv.exists)
            /\ c.missing \cap ObsKeys = {}
            /\ \E written \in {BadFile} \cup {TableFile(t) : t \in Tables} :
                 call' = [call EXCEPT !.csv = written,
                                      !.calls =
                          Append(@, ReadTable(c, call.csv, written, TRUE))]
         \/ /\ ~RunsGenerator(call.csv.exists)
            /\ call' = [call EXCEPT !.calls =
                          Append(@, ReadTable(c, call.csv, call.csv, FALSE))]
    /\ UNCHANGED program

NextPredict == GenerateSatellitePredictions

SpecPredict == InitPredict /\ [][NextPredict]_vars

(***************************************************************************)
(* Properties of the identification loop                                   *)
(***************************************************************************)
\* a step of the loop body of lines 188-195, for the Prediction at pj
Examines == pc = "identify" /\ ti <= Len(tracks) /\ pj <= Len(predictions)
                            /\ pj' = pj + 1

\* what a step does with the id, for measures m, limits c and the Prediction's id
ReplacesIffAllFour(m, c, id) ==
    /\ (CmpDtm(m, c) /\ CmpRm(m, c) /\ CmpDpa(m, c) /\ CmpFdr(m, c))
          <=> (satno' = id)
    /\ (~CmpDtm(m, c) \/ ~CmpRm(m, c) \/ ~CmpDpa(m, c) \/ ~CmpFdr(m, c))
          => (satno' = satno)

\* C1: a Prediction replaces the id the Track is about to take if and only if all
\* four of |dtm| < max_along_track_offset_s, |rm| < max_off_track_offset_deg,
\* |dpa| < max_direction_difference_deg and |fdr| < max_velocity_difference_percent
\* hold together; a Prediction failing any one of them leaves the id as it was.
C1_ReplacedIffAllFourWithin ==
    [][Examines => ReplacesIffAllFour(Measures(predictions[pj], tracks[ti]), cfg,
                                      predictions[pj].satno)]_vars

\* m fails the rate comparison alone
OnlyRateFails(m, c) == CmpDtm(m, c) /\ CmpRm(m, c) /\ CmpDpa(m, c) /\ ~CmpFdr(m, c)

\* C1, its case: the first Prediction failed only the rate comparison and left the
\* placeholder id, the second passed all four and its id replaced the placeholder
C1_Witness ==
    /\ pc = "identify" /\ ti = 1 /\ pj = 3 /\ Len(tracks) >= 1
    /\ OnlyRateFails(Measures(predictions[1], tracks[1]), cfg)
    /\ Accepted(Measures(predictions[2], tracks[1]), cfg)
    /\ satno = predictions[2].satno

\* the Predictions that pass the test of line 194 for Track i
AcceptedBy(i) ==
    {j \in DOMAIN predictions :
        LET m == Measures(predictions[j], tracks[i])
        IN  CmpDtm(m, cfg) /\ CmpRm(m, cfg) /\ CmpDpa(m, cfg) /\ CmpFdr(m, cfg)}

\* the Observation and the id of Track i once the loop body has run for it
CarriesItsId(i, acc) ==
    /\ obs[i].norad = tracks[i].satno
    /\ obs[i].t = tracks[i].tmid
    /\ obs[i].x = tracks[i].x0 /\ obs[i].y = tracks[i].y0
    /\ acc = {} => /\ obs[i].norad = 90000 + (i - 1)
                   /\ obs[i].cospar = << "2", "2", " ", "5", "0", "0", "A" >>
                   /\ tracks[i].cospar = obs[i].cospar
    /\ \A j \in acc : acc = {j} => obs[i].norad = predictions[j].satno

\* the report of a burst is printed
Reported == pc \in {"open", "done"} /\ burst >= 1

\* C2: every burst yields exactly one Observation per Track and as many report
\* lines, in Track order; a Track with exactly one accepted Prediction carries
\* that Prediction's id, a Track with none carries 90000 + its index and the
\* placeholder catalog tag; no Track is left without an Observation.
C2_OneObservationPerTrack ==
    /\ pc = "identify" =>
          /\ Len(obs) = ti - 1
          /\ Len(obs) <= Len(tracks)
          /\ \A i \in DOMAIN obs : CarriesItsId(i, AcceptedBy(i))
    /\ Reported =>
          /\ Len(obs) = Len(tracks)
          /\ Len(printed) = Len(tracks)
          /\ \A i \in DOMAIN printed :
                /\ printed[i] = to_iod_line(obs[i])
                /\ SubSeq(printed[i], 1, 5) = ZeroPad(tracks[i].satno, 5)

\* C2, its case: a reported burst of two Tracks, the first with exactly one
\* accepted Prediction, the second with none
C2_Witness ==
    /\ Reported /\ Len(tracks) = 2 /\ Len(printed) = 2
    /\ Cardinality(AcceptedBy(1)) = 1
    /\ AcceptedBy(2) = {}
    /\ obs[1].norad \in SatNos
    /\ obs[2].norad = 90001

\* C3: find_tracks_by_hough3d returns no Track with fewer than ntrkmin inliers
C3_NoTrackBelowMinimum ==
    \A i \in DOMAIN tracks : tracks[i].n >= cfg.ntrkmin

\* all four measures are zero: dtm = 0, rm = 0, dpa = 0 (cosine 1), fdr = 0
\* (ratio 1)
AllZeroMeasures(m) ==
    /\ m.dtm.kind = "num" /\ FZero(m.dtm.v)
    /\ m.rm2.kind = "num" /\ FZero(m.rm2.v)
    /\ ~m.dpanan /\ m.dpa.dot.n > 0
    /\ FSq(m.dpa.dot) = FMul(m.dpa.a2, m.dpa.b2)
    /\ m.ratio2.kind = "num" /\ m.ratio2.v = FInt(1)

\* among the Predictions acc that pass for Track i, the one with zero residual
\* gives the id when the others have a residual
ZeroResidualWins(i, acc) ==
    \A j \in acc :
        (/\ AllZeroMeasures(Measures(predictions[j], tracks[i]))
         /\ \A k \in acc \ {j} :
               ~AllZeroMeasures(Measures(predictions[k], tracks[i])))
        => tracks[i].satno = predictions[j].satno

\* C4: when several Predictions pass for a Track, the Track takes the id of the
\* one with the smallest combined normalized residual, whatever the iteration
\* order.  Stated on the case that needs no choice of normalization: a passing
\* Prediction whose four measures are all zero against passing Predictions
\* whose measures are not.
C4_SmallestResidualWins ==
    pc = "identify" => \A i \in 1..(ti - 1) : ZeroResidualWins(i, AcceptedBy(i))

\* the rows of Prediction p lie on the linear motion fitted to Track t
OnFittedMotion(p, t, k) ==
    /\ FInt(p.rx[k]) = FAdd(t.rx0, FMul(t.drxdt, FSub(FInt(p.t[k]), t.tmid)))
    /\ FInt(p.ry[k]) = FAdd(t.ry0, FMul(t.drydt, FSub(FInt(p.t[k]), t.tmid)))
ExactMatch(p, t) == Len(p.t) >= 2 /\ \A k \in DOMAIN p.t : OnFittedMotion(p, t, k)

\* every one of the four measures is a number outside its limit
BeyondEvery(m, c) ==
    /\ m.dtm.kind = "num" /\ ~CmpDtm(m, c)
    /\ m.rm2.kind = "num" /\ ~CmpRm(m, c)
    /\ ~m.dpanan /\ ~CmpDpa(m, c)
    /\ m.ratio2.kind = "num" /\ ~CmpFdr(m, c)

ExactBeatsFarOff(i, j, k) ==
    (/\ ExactMatch(predictions[j], tracks[i])
     /\ BeyondEvery(Measures(predictions[k], tracks[i]), cfg))
    => tracks[i].satno = predictions[j].satno

\* C5: of two Predictions, one matching the Track exactly and one beyond every
\* one of the four limits, the Track takes the id of the exact match, in both
\* iteration orders.
C5_ExactMatchBeatsFarOff ==
    (pc = "identify" /\ Len(predictions) = 2) =>
        \A i \in 1..(ti - 1) : ExactBeatsFarOff(i, 1, 2) /\ ExactBeatsFarOff(i, 2, 1)

ZeroAndAccepted(m, c) ==
    /\ AllZeroMeasures(m)
    /\ CmpDtm(m, c) /\ CmpRm(m, c) /\ CmpDpa(m, c) /\ CmpFdr(m, c)

\* C6: a Prediction whose ephemeris equals the Track's fitted linear motion has
\* all four measures zero at the Track's mid-time, and is accepted under any
\* limits that are positive.
C6_ExactMatchHasZeroMeasures ==
    (pc = "identify" /\ ti <= Len(tracks)) =>
        \A j \in DOMAIN predictions :
            ExactMatch(predictions[j], tracks[ti])
            => ZeroAndAccepted(Measures(predictions[j], tracks[ti]), cfg)

\* the degree a fit of n samples is to have
FitDegree(n) ==
    IF n >= 3 THEN "quadratic" ELSE IF n = 2 THEN "linear" ELSE "unavailable"

\* the Prediction's three fit sites on its own rows
PredictionFitsByCount(p) ==
    /\ position_and_velocity(p, FInt(0), FInt(1)).nan
          <=> (FitDegree(Len(p.t)) = "unavailable")
    /\ (residual(p, FInt(0), FInt(0), FInt(0)).wm2.kind = "nan")
          <=> (FitDegree(Len(p.t)) = "unavailable")
    /\ residuals_degree(Len(p.t)) = FitDegree(Len(p.t))

\* C7: every fit site takes the degree from the sample count: quadratic for
\* n >= 3, linear for n = 2, no model for n < 2; none raises on a short input and
\* none fits a degree to fewer points than the degree needs.
C7_DegreeFromSampleCount ==
    /\ \A j \in DOMAIN predictions : PredictionFitsByCount(predictions[j])
    /\ \A i \in DOMAIN tracks : tracks[i].n >= tracks[i].pxdeg + 1
    /\ err # "lstsq"

\* C8: a failure of the ephemeris generator or of the line detector (exit
\* status, unparsable output) never ends the run; the later bursts are processed.
C8_CollaboratorFailureKeepsRunning ==
    /\ pc = "aborted" => err \notin {"generator", "table", "detector_output"}
    /\ last \in {"generator_failed", "detector_failed"} => pc # "aborted"

\* C9: a missing identification, detection or observer option stops the run at
\* startup, before a burst is opened or a collaborator is invoked.
C9_ConfigErrorsStopAtStartup ==
    /\ cfg.missing # {} => burst = 0 /\ last = "none"
    /\ err = "config" => burst = 0 /\ last = "none"

(***************************************************************************)
(* Properties of the report line                                           *)
(***************************************************************************)
IsDigit(ch) == ch \in {"0", "1", "2", "3", "4", "5", "6", "7", "8", "9"}
Digits(l, from, to) == \A k \in from..to : IsDigit(l[k])
Blanks(l, cols) == \A k \in cols : l[k] = " "

\* the layout of a report line: id 1-5, tag 7-15, site 17-20, G 22, timestamp
\* 24-40, 17 at 42-43, 25 at 45-46, position 48-61, 37 at 63-64, S at 66
FixedLayout(l) ==
    /\ Len(l) = 66
    /\ Digits(l, 1, 5) /\ Digits(l, 17, 20) /\ Digits(l, 24, 40)
    /\ Blanks(l, {6, 16, 21, 23, 41, 44, 47, 62, 65})
    /\ l[22] = "G" /\ l[66] = "S"
    /\ SubSeq(l, 42, 43) = << "1", "7" >>
    /\ SubSeq(l, 45, 46) = << "2", "5" >>
    /\ SubSeq(l, 63, 64) = << "3", "7" >>

\* C10: every report line has the same width and column layout (5-digit id,
\* 9-character tag, 4-digit site, 17-digit timestamp, the tokens G, 17, 25, 37, S
\* at fixed columns), for every id the pipeline assigns, 90000 + i included.
C10_FixedWidthReportLine ==
    \A k \in DOMAIN printed : FixedLayout(printed[k])

DigitValue(ch) ==
    CHOOSE d \in 0..9 :
        << "0", "1", "2", "3", "4", "5", "6", "7", "8", "9" >>[d + 1] = ch

RECURSIVE NumberOf(_)
NumberOf(str) ==
    IF str = <<>> THEN 0
    ELSE 10 * NumberOf(SubSeq(str, 1, Len(str) - 1)) + DigitValue(str[Len(str)])

\* the position printed in report line l, the text before the closing " 37 S"
PositionOf(l) == SubSeq(l, Len(l) - 18, Len(l) - 5)

\* position text pos is HHMMmmm(+|-)DDMMmm for declination de, with the minutes
\* fields below 60
WellFormedPosition(pos, de) ==
    /\ Len(pos) = 14
    /\ Digits(pos, 1, 7) /\ Digits(pos, 9, 14)
    /\ NumberOf(SubSeq(pos, 1, 2)) <= 23
    /\ NumberOf(SubSeq(pos, 3, 7)) < 60000
    /\ pos[8] \in {"+", "-"}
    /\ (pos[8] = "-") <=> (de < 0)
    /\ NumberOf(SubSeq(pos, 11, 14)) < 6000

\* C11: for ra in [0, 360) and dec in [-90, 90], format_position gives 14
\* characters HHMMmmm(+|-)DDMMmm with HH in 00..23, RA minutes below 60.000 and
\* Dec arc-minutes below 60.00 after rounding, and '-' exactly for negative dec.
C11_PositionFieldsInRange ==
    \A k \in DOMAIN printed : WellFormedPosition(PositionOf(printed[k]), obs[k].dec)

(***************************************************************************)
(* Properties of the burst loop                                            *)
(***************************************************************************)
RankIn(order, name) == CHOOSE k \in DOMAIN order : order[k] = name
InOrder(order, entered) ==
    \A i, j \in DOMAIN entered :
        i < j => RankIn(order, entered[i]) < RankIn(order, entered[j])

\* the next file is opened, or the loop left, only with the burst reported
ReportedBeforeNext ==
    /\ (pc = "open" /\ burst > 1) \/ pc = "done" =>
          /\ stages # <<>> /\ stages[Len(stages)] = "report"
          /\ Len(printed) = Len(tracks)
    /\ pc \in {"predict", "detect", "identify"} =>
          \A k \in DOMAIN stages : stages[k] # "report"

\* no stage without the ones before it
NoStageSkipped ==
    \A k \in DOMAIN stages :
        /\ stages[k] = "identification" => stages[1] = "prediction" /\ k >= 3
        /\ stages[k] = "report" => k >= 4 /\ stages[k - 1] = "identification"
        /\ stages[k] = "extraction" => k = 2

\* C12 as amended: each burst is processed to completion before the next
\* starts, and within a burst the stages run in the order prediction
\* adaptation, extraction, line detection, track building, identification,
\* report.
C12_StagesInProgramOrder ==
    /\ InOrder(<< "prediction", "extraction", "detection", "building",
                  "identification", "report" >>, stages)
    /\ NoStageSkipped
    /\ ReportedBeforeNext

\* C12, its case: the second burst has run through all six stages
C12_Witness ==
    /\ pc = "done" /\ burst = 2
    /\ stages = << "prediction", "extraction", "detection", "building",
                   "identification", "report" >>
    /\ Len(printed) >= 1

\* C12 as stated: each burst is processed to completion before the next starts,
\* and within a burst the stages run in the order extraction, line detection,
\* track building, prediction adaptation, identification, report.
C12_StagesInStatedOrder ==
    /\ InOrder(<< "extraction", "detection", "building", "prediction",
                  "identification", "report" >>, stages)
    /\ ReportedBeforeNext

(***************************************************************************)
(* Properties of the fits                                                  *)
(***************************************************************************)
\* the fitted pixel positions of Track t are those of its inliers
Reproduced(t) ==
    \A i \in DOMAIN t.pts :
        t.xp[i] = FInt(t.pts[i].x) /\ t.yp[i] = FInt(t.pts[i].y)

AngleReturned == call.fn = "angle_difference" /\ call.at = "returned"

\* a1 and a2 are the same direction, whole turns apart or not
SameDirection(a1, a2) ==
    CosineIs(angle_difference(FInt(a1.vx), FInt(a1.vy),
                              FInt(a2.vx), FInt(a2.vy)), 1)

\* a2 is a1 turned by pi
OppositeDirection(a1, a2) ==
    CosineIs(angle_difference(FInt(a1.vx), FInt(a1.vy),
                              FInt(a2.vx), FInt(a2.vy)), -1)

\* arccos returned exactly 0 (sign = 1) or exactly pi (sign = -1)
IsExactly(r, sign) == r.kind = "num" /\ CosineIs(r.ang, sign) /\ r.e = 0

\* C14: the angular difference of two directions lies in [0, pi], is the same
\* for both argument orders, is 0 for (a, a) and pi for (a, a + pi), whole
\* turns included.
C14_AngleInRangeSymmetricExact ==
    AngleReturned =>
        /\ call.result.kind = "num"
        /\ call.swapped = call.result
        /\ SameDirection(call.ang1, call.ang2) => IsExactly(call.result, 1)
        /\ OppositeDirection(call.ang1, call.ang2) => IsExactly(call.result, -1)


(***************************************************************************)
(* Properties of the tangent-plane offsets (SpecDeproject)                 *)
(***************************************************************************)
\* the offsets are exactly (0, 0): radius = arccos(1) = 0
IsOrigin(res) == res.kind = "num" /\ res.r[1] = FInt(1) /\ res.e = 0

AtReference == call.l = call.l0 /\ call.b = call.b0

\* C15: deproject(l0, b0, l0, b0) returns the offsets (0, 0) for every valid
\* reference direction and is never undefined.
C15_ReferenceMapsToOrigin ==
    (call.fn = "deproject" /\ call.at = "returned" /\ AtReference)
        => IsOrigin(call.result)


(***************************************************************************)
(* Properties of the executable lookup (SpecBin)                           *)
(***************************************************************************)
\* the candidate names of an executable, a single string being one candidate
Candidates(x) == IF x.str THEN << x.name >> ELSE x.names

Resolving(x, files) == {i \in DOMAIN Candidates(x) : Candidates(x)[i] \in files}

FirstResolving(x, files) ==
    Candidates(x)[CHOOSE i \in Resolving(x, files) :
                     \A j \in Resolving(x, files) : i <= j]

\* C16: get_bin_path returns the path of the first candidate, in the given
\* order, that resolves to an existing file (a single string is one
\* candidate), and raises ExecutableNotFoundError if and only if none does.
C16_FirstResolvingCandidate ==
    (call.fn = "get_bin_path" /\ call.at # "called") =>
        IF Resolving(call.executable, call.which) = {}
        THEN call.at = "raised" /\ call.error = "ExecutableNotFoundError"
        ELSE /\ call.at = "returned"
             /\ call.result = FirstResolving(call.executable, call.which)


(***************************************************************************)
(* Properties of the gain loop (SpecGain)                                  *)
(***************************************************************************)
\* the gain seen before reading i: the reading before it, the configured gain
\* for the first
SeenBefore(i) == IF i = 1 THEN call.configured ELSE call.readings[i - 1]

ChangedReadings == {i \in DOMAIN call.readings : call.readings[i] # SeenBefore(i)}

\* the changed readings among q[i], q[i + 1], ..., in order
RECURSIVE Changes(_, _)
Changes(q, i) ==
    IF i > Len(q) THEN <<>>
    ELSE IF i \in ChangedReadings
         THEN << q[i] >> \o Changes(q, i + 1)
         ELSE Changes(q, i + 1)

GainReturned == call.fn = "fix_autogain" /\ call.at = "returned"

\* C17: fix_autogain returns only when the gain the camera reports equals the
\* gain seen in the previous iteration (the configured gain in the first);
\* every changed reading is written back with auto enabled; on return
\* cfg['gain'] is the camera's last reported gain.
C17_ReturnsOnConstantGain ==
    call.fn = "fix_autogain" =>
        /\ call.at = "returned" <=>
              /\ call.readings # <<>>
              /\ Len(call.readings) \notin ChangedReadings
        /\ \A i \in DOMAIN call.readings :
              i < Len(call.readings) => i \in ChangedReadings
        /\ Len(call.writes) = Cardinality(ChangedReadings)
        /\ \A k \in DOMAIN call.writes :
              /\ call.writes[k].control = "ASI_GAIN"
              /\ call.writes[k].auto
              /\ call.writes[k].value = Changes(call.readings, 1)[k]
        /\ call.at = "returned" =>
              call.cfg.gain = call.readings[Len(call.readings)]

\* the gain changed twice before it settled
C17_Witness ==
    /\ GainReturned
    /\ Len(call.writes) = 2
    /\ call.cfg.gain # call.configured


(***************************************************************************)
(* Properties of the camera configuration (SpecConfig)                     *)
(***************************************************************************)
MissingKeys == {i \in DOMAIN keys : call.section[keys[i].key] = Missing}

\* every option the section holds has a text of its declared type
WellTyped ==
    \A i \in DOMAIN keys :
        get(call.section, keys[i]).kind \in {keys[i].type, "NameError"}

\* C18: load_config_section raises ConfigError naming <section>.<key> when a
\* requested option is missing; otherwise it returns a dict holding exactly
\* the requested keys, each converted to its declared type.
C18_MissingOptionIsConfigError ==
    (call.fn = "load_config_section" /\ call.at # "called" /\ WellTyped) =>
        IF MissingKeys # {}
        THEN /\ call.at = "raised"
             /\ call.error = "ConfigError"
             /\ call.parent_section = "ASI"
             /\ \E i \in MissingKeys : call.key = keys[i].key
        ELSE /\ call.at = "returned"
             /\ DOMAIN call.result = {keys[i].key : i \in DOMAIN keys}
             /\ \A i \in DOMAIN keys : call.result[keys[i].key].kind = keys[i].type


(***************************************************************************)
(* Properties of the residual of a point against a Prediction              *)
(* (SpecResidual)                                                          *)
(***************************************************************************)
\* the positional residual (rx0 - rx, ry0 - ry) at t0
ResidualX == call.rx0 - (call.m.x0 + call.m.vx * call.t0)
ResidualY == call.ry0 - (call.m.y0 + call.m.vy * call.t0)

Rate2 == call.m.vx * call.m.vx + call.m.vy * call.m.vy

\* the residual's component along the velocity, times the rate
AlongTimesRate == call.m.vx * ResidualX + call.m.vy * ResidualY

\* the residual's component perpendicular to the velocity, times the rate
AcrossTimesRate == call.m.vy * ResidualX - call.m.vx * ResidualY

\* C19: for every predicted velocity direction Prediction.residual returns the
\* residual's component along the velocity divided by the rate, and its
\* component perpendicular to the velocity (here as its square).
C19_AlongAndAcrossTrack ==
    (call.fn = "residual" /\ call.at = "returned" /\ Rate2 > 0) =>
        /\ call.result.dtm = Num(Frac(AlongTimesRate, Rate2))
        /\ call.result.wm2 = Num(Frac(AcrossTimesRate * AcrossTimesRate, Rate2))


(***************************************************************************)
(* Properties of the order in which passing Predictions are taken          *)
(***************************************************************************)
\* the id a Track at index i holds when the Predictions acc have passed for it:
\* that of the last of them in iteration order, 90000 + i - 1 when none has
IdAfter(i, acc) ==
    IF acc = {} THEN 90000 + (i - 1)
    ELSE predictions[CHOOSE j \in acc : \A k \in acc : k <= j].satno

\* the Predictions already examined for the current Track that passed
PassedSoFar ==
    {j \in 1..(pj - 1) :
        LET m == Measures(predictions[j], tracks[ti])
        IN  CmpDtm(m, cfg) /\ CmpRm(m, cfg) /\ CmpDpa(m, cfg) /\ CmpFdr(m, cfg)}

\* C20: when several Predictions pass for a Track, the id it holds after the
\* loop is the id of the last passing Prediction in iteration order; the id is
\* overwritten on every passing Prediction, so at every point of the loop it
\* is the id of the last one that has passed so far.
C20_LastPassingWins ==
    pc = "identify" =>
        /\ \A i \in 1..(ti - 1) : tracks[i].satno = IdAfter(i, AcceptedBy(i))
        /\ ti <= Len(tracks) => satno = IdAfter(ti, PassedSoFar)

\* C20, its case: two Predictions with different ids passed for the first Track,
\* which holds the id of the second
C20_Witness ==
    /\ pc = "identify" /\ ti >= 2
    /\ Cardinality(AcceptedBy(1)) >= 2
    /\ \E j \in AcceptedBy(1), k \in AcceptedBy(1) :
          /\ j < k
          /\ predictions[j].satno # predictions[k].satno
          /\ tracks[1].satno = predictions[k].satno


(***************************************************************************)
(* Properties of find_tracks_by_hough3d (SpecHough)                        *)
(***************************************************************************)
HoughReturned == call.fn = "find_tracks_by_hough3d" /\ call.at = "returned"

\* the line's position at the frame of pt, (ax + f * bx, ay + f * by) with
\* f = (znum - az) / bz, is less than r pixels from pt
DistanceBelow(pt, l, r) ==
    /\ l.bz # 0
    /\ FLt(FAdd(FSq(FSub(FInt(pt.x),
                         FAdd(FInt(l.ax),
                              FMul(Frac(pt.znum - l.az, l.bz), FInt(l.bx))))),
                FSq(FSub(FInt(pt.y),
                         FAdd(FInt(l.ay),
                              FMul(Frac(pt.znum - l.az, l.bz), FInt(l.by)))))),
           FInt(r * r))

\* the significant points within the inlier radius of line l
Within(l) ==
    {i \in DOMAIN call.points : DistanceBelow(call.points[i], l, call.trkrmin)}

\* the points at the indices of set, in the order of the point cloud
RECURSIVE PointsAt(_, _)
PointsAt(set, i) ==
    IF i > Len(call.points) THEN <<>>
    ELSE (IF i \in set THEN << call.points[i] >> ELSE <<>>) \o PointsAt(set, i + 1)

\* the detected lines that have a point within the radius, in their order
RECURSIVE WithInliers(_)
WithInliers(lines) ==
    IF lines = <<>> THEN <<>>
    ELSE (IF Within(Head(lines)) # {} THEN << Head(lines) >> ELSE <<>>)
         \o WithInliers(Tail(lines))

TracksHoldInliers(kept) ==
    /\ Len(call.result) = Len(kept)
    /\ \A j \in DOMAIN kept :
          /\ call.result[j].pts = PointsAt(Within(kept[j]), 1)
          /\ call.result[j].n = Cardinality(Within(kept[j]))

\* C21: for each detected line the Track's points are exactly the significant
\* points whose distance to the line's position at their own frame is
\* strictly below trkrmin: none outside the radius is in the Track, none
\* inside it is left out.
C21_TrackHoldsExactlyTheInliers ==
    HoughReturned => TracksHoldInliers(WithInliers(call.lines))

\* C21, its case: a Track built from some of the significant points, with a
\* point left out that lies exactly at the radius
C21_Witness ==
    /\ HoughReturned
    /\ Len(call.result) >= 1
    /\ call.result[1].n < Len(call.points)
    /\ \E i \in DOMAIN call.points :
          /\ InlierInclusive(call.points[i], WithInliers(call.lines)[1], call.trkrmin)
          /\ i \notin Within(WithInliers(call.lines)[1])


\* the pixels of the frame, as raster indices, whose zsig is above sigma:
\* (zmax - zavg) / (zstd + 1e-9) > sigma
AboveThreshold ==
    {k \in DOMAIN call.frame :
        FLt(FInt(call.sigma), Frac(call.frame[k].diff, call.frame[k].std + 1))}

\* the pixels whose ratio (zmax - zavg) / zstd is above sigma; at zstd = 0 the
\* ratio is infinite for a positive excess and undefined for none
RatioAboveThreshold ==
    {k \in DOMAIN call.frame :
        IF call.frame[k].std = 0 THEN call.frame[k].diff > 0
        ELSE FLt(FInt(call.sigma), Frac(call.frame[k].diff, call.frame[k].std))}

\* the point cloud made of the pixels in set: raster order, the pixel's
\* coordinates, its frame index and that frame's time offset
RECURSIVE CloudOf(_, _)
CloudOf(set, k) ==
    IF k > Len(call.frame) THEN <<>>
    ELSE (IF k \in set
          THEN << [x |-> Raster(FramePixels)[k][1], y |-> Raster(FramePixels)[k][2],
                   znum |-> call.frame[k].znum,
                   t |-> FrameTime(call.frame[k].znum)] >>
          ELSE <<>>)
         \o CloudOf(set, k + 1)

\* what the point cloud holds of each point's pixel
PixelsOf(pts) ==
    [i \in DOMAIN pts |->
        [x |-> pts[i].x, y |-> pts[i].y, znum |-> pts[i].znum, t |-> pts[i].t]]

\* a line "x.000000,y.000000,z.000000\n" of whole numbers below ten
TripleLine(line, x, y, z) ==
    /\ Len(line) = 27
    /\ \A f \in 0..2 : /\ line[9 * f + 2] = "."
                       /\ \A j \in 3..8 : line[9 * f + j] = "0"
    /\ line[9] = "," /\ line[18] = "," /\ line[27] = "\n"
    /\ NumberOf(<< line[1] >>) = x
    /\ NumberOf(<< line[10] >>) = y
    /\ NumberOf(<< line[19] >>) = z

\* the file handed to the detector lists the point cloud
FileListsCloud ==
    /\ Len(call.written) = Len(call.points)
    /\ \A i \in DOMAIN call.written :
          TripleLine(call.written[i], call.points[i].x, call.points[i].y,
                     call.points[i].znum)

Extracted == call.fn = "find_tracks_by_hough3d" /\ call.at # "called"

\* C22, as the code has it: the point cloud holds exactly the pixels with
\* (zmax - zavg) / (zstd + 1e-9) > trksig, each with the time offset of the
\* frame index in its znum, and the file the detector is run on lists the
\* (x, y, frame index) of exactly these pixels.
C22_CloudIsPixelsAboveRegularisedRatio ==
    Extracted =>
        /\ PixelsOf(call.points) = CloudOf(AboveThreshold, 1)
        /\ call.runs = 1 => FileListsCloud

\* C22, its case: the detector was run on a frame of which some pixels are in
\* the cloud and some are not, one of them a pixel that never changed
C22_Witness ==
    /\ Extracted /\ call.runs = 1
    /\ Len(call.points) < Len(call.frame)
    /\ \E k \in DOMAIN call.frame : call.frame[k].std = 0

\* C22: the point cloud holds exactly the pixels whose ratio
\* (max - mean) / std is strictly greater than trksig.
C22_CloudIsPixelsAboveRatio ==
    Extracted => PixelsOf(call.points) = CloudOf(RatioAboveThreshold, 1)


(***************************************************************************)
(* Properties of a burst with too few significant points                   *)
(***************************************************************************)
Entered(stage) == \E i \in DOMAIN stages : stages[i] = stage

\* find_tracks_by_hough3d has been called in this burst on fewer than ntrkmin
\* significant points
TooFewPoints == Entered("extraction") /\ Len(cloud) < cfg.ntrkmin

\* C23: with fewer than ntrkmin significant points find_tracks_by_hough3d
\* returns an empty Track list without reaching the detector (no temporary
\* file, no invocation) and without raising; the burst yields no Observation
\* and the program goes on to the report and the next burst.
C23_TooFewPointsSkipsDetector ==
    TooFewPoints =>
        /\ last = "too_few_points"
        /\ ~Entered("detection") /\ ~Entered("building")
        /\ tracks = <<>>
        /\ obs = <<>>
        /\ err = "none"
        /\ pc \in {"identify", "open", "done"}
        /\ Entered("report") => printed = <<>> /\ pc \in {"open", "done"}

\* C23, its case: the first burst had too few points, its empty report is
\* printed and the second burst is about to be opened
C23_Witness ==
    /\ TooFewPoints
    /\ Entered("report")
    /\ pc = "open" /\ burst = 2


(***************************************************************************)
(* Properties of a Track's fields across identification                    *)
(***************************************************************************)
\* Track i as Track.__init__ left it: no id, no catalog tag
IdentityUnset(i) == tracks[i].satno = "None" /\ tracks[i].cospar = "None"

\* Track i has been given the id and the tag its Observation carries
IdentitySet(i) ==
    /\ tracks[i].satno = obs[i].norad
    /\ tracks[i].cospar # "None"
    /\ tracks[i].cospar = obs[i].cospar

\* the fields of a Track other than its identity
OtherFields(t) == [t EXCEPT !.satno = 0, !.cospar = 0]

IdentityFollowsLoop ==
    pc \in {"identify", "open", "done"} =>
        \A i \in DOMAIN tracks :
            IF i < ti THEN IdentitySet(i) ELSE IdentityUnset(i)

OnlyIdentityChanges ==
    pc = "identify" =>
        /\ Len(tracks') = Len(tracks)
        /\ \A i \in DOMAIN tracks : OtherFields(tracks'[i]) = OtherFields(tracks[i])

\* C24: a Track is created with satno and cospar unset; the identification
\* loop sets both on every Track of the burst, in turn, and changes no other
\* field of any Track.
C24_IdentificationSetsOnlyIdentity ==
    [] IdentityFollowsLoop /\ [][OnlyIdentityChanges]_vars

\* C24, its case: of two Tracks the first has its identity, the second is as
\* constructed
C24_Witness ==
    /\ pc = "identify" /\ Len(tracks) = 2 /\ ti = 2
    /\ IdentitySet(1)
    /\ IdentityUnset(2)


(***************************************************************************)
(* Properties of a Prediction too short to fit                             *)
(***************************************************************************)
\* the loop is about to examine a Prediction of fewer than 3 samples
ExaminesShort ==
    /\ pc = "identify" /\ ti <= Len(tracks) /\ pj <= Len(predictions)
    /\ Len(predictions[pj].t) < 3

\* both methods of the Prediction return NaN in every position
AllNaN(p, t) ==
    /\ position_and_velocity(p, t.tmid, FInt(t.tmax - t.tmin)).nan
    /\ residual(p, t.tmid, t.rx0, t.ry0).dtm.kind = "nan"
    /\ residual(p, t.tmid, t.rx0, t.ry0).wm2.kind = "nan"
    /\ Measures(p, t).ratio2.kind = "nan"

NoComparisonHolds(m, c) ==
    ~CmpDtm(m, c) /\ ~CmpRm(m, c) /\ ~CmpDpa(m, c) /\ ~CmpFdr(m, c)

ShortIsNeverWithin ==
    ExaminesShort =>
        /\ AllNaN(predictions[pj], tracks[ti])
        /\ NoComparisonHolds(Measures(predictions[pj], tracks[ti]), cfg)

ShortKeepsId ==
    ExaminesShort =>
        /\ satno' = satno
        /\ pc' = "identify" /\ err' = "none"
        /\ pj' = pj + 1

\* C25: a Prediction of fewer than 3 samples never changes a Track's id: its
\* methods return NaN, each of the four comparisons is false, the id the Track
\* had is kept and the loop moves on to the next Prediction without an error.
C25_ShortPredictionKeepsId ==
    [] ShortIsNeverWithin /\ [][ShortKeepsId]_vars

\* C25, its case: a Prediction of 2 samples along the very motion of a
\* 4-point Track has been examined, and the Track has the id it started with
C25_Witness ==
    /\ pc = "identify" /\ ti = 1 /\ pj = 2 /\ Len(tracks) >= 1
    /\ tracks[1].n = 4
    /\ Len(predictions[1].t) = 2
    /\ predictions[1].rx[1] = tracks[1].pts[1].rx
    /\ satno = DefaultSatno(0)


(***************************************************************************)
(* Properties of a Track without traversal                                 *)
(***************************************************************************)
\* self.dr = self.drdt * (self.tmax - self.tmin) is zero
ZeroTraversal(t) == t.tmax = t.tmin \/ FZero(TrackDrdt2(t))

\* Track.__init__ raised: the inliers of a line shared one frame time
ConstructionRaised == pc = "aborted" /\ err = "lstsq"

\* C26: a Track whose traversal is zero (tmax = tmin, or a fitted rate of zero)
\* is constructed and examined without any error being raised, no Prediction
\* passes for it, and it is reported under its placeholder id.
C26_ZeroTraversalKeepsPlaceholder ==
    /\ ~ConstructionRaised
    /\ pc \in {"identify", "open", "done"} =>
          \A i \in DOMAIN tracks :
              (i < ti /\ ZeroTraversal(tracks[i])) =>
                  obs[i].norad = DefaultSatno(i - 1)


(***************************************************************************)
(* Properties of the temporary point file                                  *)
(***************************************************************************)
\* the call is past the try statement of lines 397-412
PastTry ==
    /\ call.fn = "find_tracks_by_hough3d"
    /\ call.at \in {"decoded", "returned", "raised"}

\* mkstemp of line 395 was reached
TempFileMade == Len(call.points) >= call.ntrkmin

\* C27: on every way out of the try statement of find_tracks_by_hough3d (the
\* detector's lines are decoded, the detector failed and [] is returned, or
\* writing the points raised) the temporary file that was made has been
\* removed; where none was made there is none.
C27_NoTemporaryFileOutlivesCall ==
    PastTry =>
        /\ call.tmpfile # "exists"
        /\ TempFileMade => call.tmpfile = "removed"
        /\ ~TempFileMade => call.tmpfile = "none"

\* C27, its case: writing the points failed after the first of them, the
\* error leaves the function and the file is gone
C27_Witness ==
    /\ call.fn = "find_tracks_by_hough3d"
    /\ call.at = "raised" /\ call.error = "OSError"
    /\ Len(call.written) = 1 /\ call.runs = 0
    /\ call.tmpfile = "removed"


(***************************************************************************)
(* Properties of the cached prediction table                               *)
(***************************************************************************)
PredictCalls ==
    IF call.fn = "generate_satellite_predictions" THEN call.calls ELSE <<>>

\* the ids of a list of Predictions, and whether no id occurs twice
IdsOf(preds) == {preds[k].satno : k \in DOMAIN preds}
OnePerId(preds) == Cardinality(IdsOf(preds)) = Len(preds)

\* the generator is invoked only in calls that found no <fname>.csv
InvokedOnlyWithoutTable ==
    \A k \in DOMAIN PredictCalls : PredictCalls[k].ran => ~PredictCalls[k].found

\* what a call returns is one Prediction per id of the table on disk
ReturnsTheTable ==
    \A k \in DOMAIN PredictCalls :
        (k = Len(PredictCalls) /\ PredictCalls[k].outcome = "returned") =>
            /\ call.csv.exists /\ call.csv.wellformed
            /\ IdsOf(PredictCalls[k].predictions) = DOMAIN call.csv.table
            /\ OnePerId(PredictCalls[k].predictions)

\* a call after one that returned finds the table, returns the same
\* Predictions and does not invoke the generator
LaterCallsReuse ==
    \A i, j \in DOMAIN PredictCalls :
        (i < j /\ PredictCalls[i].outcome = "returned") =>
            /\ PredictCalls[j].found /\ ~PredictCalls[j].ran
            /\ PredictCalls[j].outcome = "returned"
            /\ PredictCalls[j].predictions = PredictCalls[i].predictions

\* C28: generate_satellite_predictions invokes the generator only when
\* <fname>.csv does not exist; after a call that returned, a later call for the
\* burst reads the table without invoking the generator, whatever cfg it is
\* passed, and returns the same Predictions, one per distinct id of the table.
C28_TableIsGeneratedOnce ==
    /\ InvokedOnlyWithoutTable
    /\ ReturnsTheTable
    /\ LaterCallsReuse

\* C28, its case: the first call ran the generator and returned two
\* Predictions; the second was passed a cfg without [Observer] and returned
\* the same two without running it
C28_Witness ==
    /\ Len(PredictCalls) = 2
    /\ PredictCalls[1].ran /\ PredictCalls[1].outcome = "returned"
    /\ Len(PredictCalls[1].predictions) = 2
    /\ PredictCalls[2].cfg.missing = ObsKeys
    /\ ~PredictCalls[2].ran /\ PredictCalls[2].outcome = "returned"


(***************************************************************************)
(* Properties of the catalog tag                                           *)
(***************************************************************************)
\* columns 7-15 of a report line: "%-9s" of the tag of line 187
TagColumns == << "2", "2", " ", "5", "0", "0", "A", " ", " " >>

\* Track i of the burst took the id of a Prediction
Identified(i) == obs[i].norad \in SatNos

TagIsPlaceholder ==
    /\ \A i \in DOMAIN obs :
          /\ obs[i].cospar = PlaceholderCospar
          /\ pc \in {"identify", "open", "done"} =>
                tracks[i].cospar = PlaceholderCospar
    /\ \A k \in DOMAIN printed :
          /\ SubSeq(printed[k], 7, 15) = TagColumns
          /\ SubSeq(printed[k], 1, 5) = ZeroPad(obs[k].norad, 5)

\* a step that examines a Prediction touches neither a Track nor an Observation
ExaminingChangesNoTag ==
    (pc = "identify" /\ ti <= Len(tracks) /\ pj <= Len(predictions)) =>
        tracks' = tracks /\ obs' = obs

\* C29: the catalog tag of every Track, of its Observation and of its report
\* line is the placeholder '22 500A', also for a Track identified with a
\* catalogued object: an accepted Prediction replaces the id alone.
C29_CatalogTagIsAlwaysPlaceholder ==
    [] TagIsPlaceholder /\ [][ExaminingChangesNoTag]_vars

\* C29, its case: a Track identified as 25544 has been reported, its line
\* starting with that id and carrying the placeholder tag
C29_Witness ==
    /\ pc \in {"open", "done"} /\ Len(printed) >= 1 /\ Len(obs) >= 1
    /\ Identified(1) /\ obs[1].norad = 25544
    /\ SubSeq(printed[1], 1, 5) = << "2", "5", "5", "4", "4" >>
    /\ SubSeq(printed[1], 7, 15) = TagColumns


(***************************************************************************)
(* Termination of fix_autogain                                             *)
(***************************************************************************)
\* the last two reads agree, or the only read is the configured gain
LastReadsAgree ==
    /\ call.fn = "fix_autogain"
    /\ call.readings # <<>>
    /\ call.readings[Len(call.readings)] = SeenBefore(Len(call.readings))

\* in the loop with a settled camera, the next pass leaves it
SettledLeavesAtOnce ==
    (CameraSettled /\ call.at = "loop") => call'.at = "returned"

\* C30: fix_autogain terminates whenever the gain the camera reports
\* eventually stays constant: the loop is left as soon as two consecutive
\* reads agree (or the first read is the configured gain), which happens
\* after finitely many captured frames.
C30_TerminatesOnceGainSettles ==
    /\ <> GainReturned
    /\ CameraSettled ~> GainReturned
    /\ [] (LastReadsAgree => GainReturned)
    /\ [][SettledLeavesAtOnce]_vars

\* C30, its case: the gain changed with each of the first two frames and
\* stayed with the third, where the loop was left
C30_Witness ==
    /\ GainReturned
    /\ Len(call.readings) = 3
    /\ call.readings[1] # call.configured
    /\ call.readings[2] # call.readings[1]
    /\ call.readings[3] = call.readings[2]

=============================================================================
